---- MODULE Spec2Model ----
(***************************************************************************)
(* Model of scripts/compare_chat_models.py: the differential conformance   *)
(* harness for chat-completion backends.                                   *)
(*                                                                         *)
(* Encoding of Python values:                                              *)
(*   - Optional[T]: None is <<>>, a present value v is <<v>>;              *)
(*   - str used as text (content, deltas): a sequence of one-character     *)
(*     strings; str used as an error message: a sequence of tokens;        *)
(*   - str used only by equality (names, finish reasons, roles): a string; *)
(*   - dict: a function from its keys; {} is the function with no keys;    *)
(*     the values of a summary dict are stored Optional-wrapped so that    *)
(*     dict.get(key) is uniform;                                           *)
(*   - an exception: a record [cls, msg]; str(exc) is its msg.             *)
(***************************************************************************)
EXTENDS Integers, Sequences, FiniteSets, TLC

(***************************************************************************)
(* Python values                                                           *)
(***************************************************************************)
None == <<>>

Some(v) == <<v>>

IsNone(o) == Len(o) = 0

Val(o) == o[1]

\* bool(x) of an Optional[str] / Optional[list]: None and the empty value are falsy
Truthy(o) == Len(o) > 0 /\ Len(o[1]) > 0

EmptyDict == [k \in {} |-> None]

\* dict.get(key): None when the key is missing
Get(d, k) == IF k \in DOMAIN d THEN d[k] ELSE None

\* dict.setdefault(key, value) on a copy
SetDefault(d, k, v) == IF k \in DOMAIN d THEN d ELSE d @@ (k :> v)

\* the dict left by dict.pop(key, default)
PopRest(d, k) == [x \in DOMAIN d \ {k} |-> d[x]]

\* the value returned by dict.pop(key, default)
PopValue(d, k, default) == IF k \in DOMAIN d THEN d[k] ELSE default

Min(a, b) == IF a <= b THEN a ELSE b

\* text[:n]
Take(s, n) == SubSeq(s, 1, Min(Len(s), n))

\* the characters str.strip() removes: U+0009..U+000D, U+001C..U+0020, U+0085,
\* U+00A0, U+1680, U+2000..U+200A, U+2028, U+2029, U+202F, U+205F, U+3000 (the
\* characters from U+2000 on are written by their escapes)
Whitespace ==
    {"\t", "\n", "", "\f", "\r", "", "",
     "", "", " ", "", " ", " ", "\\u2000",
     "\\u2001", "\\u2002", "\\u2003", "\\u2004", "\\u2005", "\\u2006", "\\u2007",
     "\\u2008", "\\u2009", "\\u200a", "\\u2028", "\\u2029", "\\u202f", "\\u205f",
     "\\u3000"}

RECURSIVE LStrip(_)
LStrip(s) == IF Len(s) > 0 /\ Head(s) \in Whitespace THEN LStrip(Tail(s)) ELSE s

RECURSIVE RStrip(_)
RStrip(s) ==
    IF Len(s) > 0 /\ s[Len(s)] \in Whitespace THEN RStrip(SubSeq(s, 1, Len(s) - 1)) ELSE s

\* str.strip()
Strip(s) == RStrip(LStrip(s))

\* "".join(chunks)
RECURSIVE Join(_)
Join(chunks) == IF Len(chunks) = 0 THEN <<>> ELSE Head(chunks) \o Join(Tail(chunks))

(***************************************************************************)
(* Exceptions: the classes imported from the openai package and the        *)
(* built-in ones the executor can meet.                                    *)
(***************************************************************************)
Exc(cls, msg) == [cls |-> cls, msg |-> msg]

\* the classes an exception of class cls is an instance of
Bases(cls) ==
    CASE cls = "BadRequestError" -> {"BadRequestError", "APIError", "Exception"}
      [] cls = "APIError" -> {"APIError", "Exception"}
      [] cls = "IndexError" -> {"IndexError", "Exception"}
      [] OTHER -> {"Exception"}

\* str(exc)
Str(exc) == exc.msg

\* the outcome of evaluating a Python expression or block
Return(v) == [type |-> "return", value |-> v]

Raise(e) == [type |-> "raise", exc |-> e]

IndexError == Exc("IndexError", <<"list index out of range">>)

\* the index of the first except clause that catches cls, 0 when none does
RECURSIVE FirstHandler(_, _, _)
FirstHandler(handlers, cls, i) ==
    IF i > Len(handlers) THEN 0
    ELSE IF handlers[i] \in Bases(cls) THEN i
    ELSE FirstHandler(handlers, cls, i + 1)

(***************************************************************************)
(* Data model                                                              *)
(***************************************************************************)
ScenarioExpectations(fr, tcc, rt, mcl) ==
    [finish_reason |-> fr, tool_call_count |-> tcc, requires_tools |-> rt,
     min_content_length |-> mcl]

Scenario(name, request, expect_failure, expectations) ==
    [name |-> name, request |-> request, expect_failure |-> expect_failure,
     expectations |-> expectations]

ScenarioResult(ok, summary, error) == [ok |-> ok, summary |-> summary, error |-> error]

(***************************************************************************)
(* Response Summarizer                                                     *)
(***************************************************************************)
PreviewLen == 120

DigitChars == <<"0", "1", "2", "3", "4", "5", "6", "7", "8", "9">>

\* str(n) of a natural number, one token per digit
RECURSIVE ToStr(_)
ToStr(n) == IF n < 10 THEN <<DigitChars[n + 1]>> ELSE ToStr(n \div 10) \o <<DigitChars[(n % 10) + 1]>>

\* the arguments of a tool call: a str, or a mapping decoded by the client
Text(chars) == [t |-> "text", chars |-> chars]

IntValue(n) == [t |-> "int", n |-> n]

StrValue(s) == [t |-> "str", s |-> s]

\* a value json.dumps has no encoding for (a Python set)
SetValue == [t |-> "set"]

\* a dict: its items in insertion order, the keys distinct
Dict(items) == [t |-> "dict", items |-> items]

Item(key, value) == [key |-> key, value |-> value]

\* the keys in the order sort_keys puts them
KeyOrder == <<"a", "b", "c">>

\* json.dumps raises TypeError for the value
RECURSIVE Unserializable(_)
Unserializable(value) ==
    CASE value.t = "set" -> TRUE
      [] value.t = "dict" -> \E i \in DOMAIN value.items : Unserializable(value.items[i].value)
      [] OTHER -> FALSE

\* json.dumps(value, sort_keys=sorted, ensure_ascii=False), as tokens
RECURSIVE JsonDumps(_, _)
RECURSIVE JsonItems(_, _, _)
JsonItems(items, order, sorted) ==
    IF Len(order) = 0 THEN <<>>
    ELSE LET item == items[Head(order)]
             rest == JsonItems(items, Tail(order), sorted)
         IN  <<"\"", item.key, "\"", ": ">> \o JsonDumps(item.value, sorted)
             \o (IF Len(rest) > 0 THEN <<", ">> ELSE <<>>) \o rest

\* the positions of the items in the order of their keys
RECURSIVE SortedPositions(_, _)
SortedPositions(items, k) ==
    IF k > Len(KeyOrder) THEN <<>>
    ELSE (IF \E i \in DOMAIN items : items[i].key = KeyOrder[k]
          THEN <<CHOOSE i \in DOMAIN items : items[i].key = KeyOrder[k]>> ELSE <<>>)
         \o SortedPositions(items, k + 1)

JsonDumps(value, sorted) ==
    CASE value.t = "int" -> ToStr(value.n)
      [] value.t = "str" -> <<"\"", value.s, "\"">>
      [] value.t = "dict" ->
            <<"{">> \o JsonItems(value.items,
                                 IF sorted THEN SortedPositions(value.items, 1)
                                 ELSE [i \in DOMAIN value.items |-> i],
                                 sorted)
            \o <<"}">>

\* str(value) of a value json.dumps refuses: the items in insertion order
RECURSIVE PyRepr(_)
RECURSIVE PyReprItems(_)
PyReprItems(items) ==
    IF Len(items) = 0 THEN <<>>
    ELSE <<"'", Head(items).key, "'", ": ">> \o PyRepr(Head(items).value)
         \o (IF Len(items) > 1 THEN <<", ">> ELSE <<>>) \o PyReprItems(Tail(items))

PyRepr(value) ==
    CASE value.t = "int" -> ToStr(value.n)
      [] value.t = "str" -> <<"'", value.s, "'">>
      [] value.t = "set" -> <<"{1, 2}">>
      [] value.t = "dict" -> <<"{">> \o PyReprItems(value.items) \o <<"}">>

\* sanitize_arguments with the keys left in insertion order
SanitizeArgumentsUnsorted(args) ==
    IF args.t = "text" THEN args
    ELSE IF Unserializable(args) THEN Text(PyRepr(args))
    ELSE Text(JsonDumps(args, FALSE))

\* sanitize_arguments(args): a str is passed through, a mapping is dumped with
\* sorted keys, str(args) when json.dumps raises TypeError
SanitizeArguments(args) ==
    IF args.t = "text" THEN args
    ELSE IF Unserializable(args) THEN Text(PyRepr(args))
    ELSE Text(JsonDumps(args, TRUE))

RECURSIVE SummariseToolCalls(_)
SummariseToolCalls(calls) ==
    IF Len(calls) = 0 THEN <<>>
    ELSE <<[id |-> Head(calls).id,
            type |-> Head(calls).type,
            function |-> [name |-> Head(calls).function.name,
                          arguments |-> SanitizeArguments(Head(calls).function.arguments)]]>>
         \o SummariseToolCalls(Tail(calls))

\* x or default, for an Optional[str]
OrEmpty(o) == IF Truthy(o) THEN Val(o) ELSE <<>>

SummariseStreamed(result) ==
    LET text == IF "content" \in DOMAIN result THEN result.content ELSE <<>>
        chunks == IF "chunks" \in DOMAIN result THEN result.chunks ELSE <<>>
    IN  [finish_reason |-> Get(result, "finish_reason"),
         content_preview |-> Some(Take(text, PreviewLen)),
         content_length |-> Some(Len(text)),
         chunk_count |-> Some(Len(chunks))]

\* the non-streamed summary with the length of the whole content added
SummariseSyncWithLength(result) ==
    IF Len(result.choices) = 0 THEN Raise(IndexError)
    ELSE LET choice == result.choices[1]
             message == choice.message
             tool_calls == IF Truthy(message.tool_calls)
                           THEN SummariseToolCalls(Val(message.tool_calls))
                           ELSE <<>>
         IN  Return([finish_reason |-> choice.finish_reason,
                     role |-> Some(message.role),
                     has_content |-> Some(Truthy(message.content)),
                     parsed |-> IF "parsed" \in DOMAIN message THEN message.parsed ELSE None,
                     tool_calls |-> IF Len(tool_calls) > 0 THEN Some(tool_calls) ELSE None,
                     content_preview |-> Some(Take(OrEmpty(message.content), PreviewLen)),
                     content_length |-> Some(Len(OrEmpty(message.content)))])

\* the non-streamed summary with the content left as it came, None included
SummariseSyncRawPreview(result) ==
    IF Len(result.choices) = 0 THEN Raise(IndexError)
    ELSE LET choice == result.choices[1]
             message == choice.message
             tool_calls == IF Truthy(message.tool_calls)
                           THEN SummariseToolCalls(Val(message.tool_calls))
                           ELSE <<>>
         IN  Return([finish_reason |-> choice.finish_reason,
                     role |-> Some(message.role),
                     has_content |-> Some(Truthy(message.content)),
                     parsed |-> IF "parsed" \in DOMAIN message THEN message.parsed ELSE None,
                     tool_calls |-> IF Len(tool_calls) > 0 THEN Some(tool_calls) ELSE None,
                     content_preview |-> IF IsNone(message.content) THEN None
                                         ELSE Some(Take(Val(message.content), PreviewLen))])

SummariseSync(result) ==
    IF Len(result.choices) = 0 THEN Raise(IndexError)
    ELSE LET choice == result.choices[1]
             message == choice.message
             tool_calls == IF Truthy(message.tool_calls)
                           THEN SummariseToolCalls(Val(message.tool_calls))
                           ELSE <<>>
         IN  Return([finish_reason |-> choice.finish_reason,
                     role |-> Some(message.role),
                     has_content |-> Some(Truthy(message.content)),
                     parsed |-> IF "parsed" \in DOMAIN message THEN message.parsed ELSE None,
                     tool_calls |-> IF Len(tool_calls) > 0 THEN Some(tool_calls) ELSE None,
                     content_preview |-> Some(Take(OrEmpty(message.content), PreviewLen))])

\* summarise_response(result, streamed=...): the summary, or the exception raised
SummariseResponse(result, streamed) ==
    IF streamed THEN Return(SummariseStreamed(result)) ELSE SummariseSync(result)

(***************************************************************************)
(* Request Executor                                                        *)
(***************************************************************************)
\* bool(x) of an Optional[str] whose value is an atom
TruthyAtom(o) == Len(o) > 0 /\ o[1] # ""

\* request = dict(scenario.request); request.setdefault("model", model)
MergedRequest(scenario, model) == SetDefault(scenario.request, "model", model)

\* the truth value of request.pop("stream", False)
StreamFlag(scenario, model) == PopValue(MergedRequest(scenario, model), "stream", FALSE)

\* the keyword arguments client.chat.completions.create is called with
CreateKwargs(scenario, model) ==
    LET request == PopRest(MergedRequest(scenario, model), "stream")
    IN  IF StreamFlag(scenario, model) THEN request @@ ("stream" :> TRUE) ELSE request

\* scenario.request after a call that worked on scenario.request itself
RequestAfterCallAliased(scenario, model) == PopRest(MergedRequest(scenario, model), "stream")

\* scenario.request after the call: setdefault and pop act on the copy of line 389
RequestAfterCall(scenario, model) == scenario.request

\* the scenario as run_single_request leaves it
ScenarioAfterCall(scenario, model) ==
    [scenario EXCEPT !.request = RequestAfterCall(scenario, model)]

\* the loop with the finish reason overwritten by every chunk, empty or not
RECURSIVE ConsumeStreamResets(_, _, _)
ConsumeStreamResets(items, chunks, finish_reason) ==
    IF Len(items) = 0 THEN Return([chunks |-> chunks, finish_reason |-> finish_reason])
    ELSE LET item == Head(items) IN
         IF item.type = "raise" THEN Raise(item.exc)
         ELSE IF Len(item.choices) = 0 THEN Raise(IndexError)
         ELSE ConsumeStreamResets(
                  Tail(items),
                  IF Truthy(item.choices[1].delta.content)
                  THEN Append(chunks, Val(item.choices[1].delta.content)) ELSE chunks,
                  IF item.choices[1].finish_reason = Some("") THEN None
                  ELSE item.choices[1].finish_reason)

\* the loop with every delta that is not None appended, the empty string too
RECURSIVE ConsumeStreamKeepsEmpty(_, _, _)
ConsumeStreamKeepsEmpty(items, chunks, finish_reason) ==
    IF Len(items) = 0 THEN Return([chunks |-> chunks, finish_reason |-> finish_reason])
    ELSE LET item == Head(items) IN
         IF item.type = "raise" THEN Raise(item.exc)
         ELSE IF Len(item.choices) = 0 THEN Raise(IndexError)
         ELSE ConsumeStreamKeepsEmpty(
                  Tail(items),
                  IF ~IsNone(item.choices[1].delta.content)
                  THEN Append(chunks, Val(item.choices[1].delta.content)) ELSE chunks,
                  IF TruthyAtom(item.choices[1].finish_reason)
                  THEN item.choices[1].finish_reason ELSE finish_reason)

\* the loop over the stream: the accumulated chunks and the last truthy finish
\* reason at exhaustion, or the exception that ended the loop
RECURSIVE ConsumeStream(_, _, _)
ConsumeStream(items, chunks, finish_reason) ==
    IF Len(items) = 0 THEN Return([chunks |-> chunks, finish_reason |-> finish_reason])
    ELSE LET item == Head(items) IN
         IF item.type = "raise" THEN Raise(item.exc)
         ELSE IF Len(item.choices) = 0 THEN Raise(IndexError)
         ELSE LET choice == item.choices[1]
                  delta == choice.delta
              IN  ConsumeStream(
                      Tail(items),
                      IF Truthy(delta.content) THEN Append(chunks, Val(delta.content))
                      ELSE chunks,
                      IF TruthyAtom(choice.finish_reason) THEN choice.finish_reason
                      ELSE finish_reason)

\* the body of the try block of the streaming branch
StreamBody(client) ==
    IF client.kind = "raise" THEN Raise(client.exc)
    ELSE LET loop == ConsumeStream(client.items, <<>>, None) IN
         IF loop.type = "raise" THEN loop
         ELSE LET chunks == loop.value.chunks
                  finish_reason == loop.value.finish_reason
                  summary == [content |-> Strip(Join(chunks)),
                              chunks |-> chunks,
                              finish_reason |-> finish_reason]
                  summarised == SummariseResponse(summary, TRUE)
              IN  IF summarised.type = "raise" THEN summarised
                  ELSE Return(ScenarioResult(finish_reason = Some("stop"),
                                             summarised.value, None))

\* the body of the try block of the synchronous branch
SyncBody(client) ==
    IF client.kind = "raise" THEN Raise(client.exc)
    ELSE LET summarised == SummariseResponse(client.response, FALSE) IN
         IF summarised.type = "raise" THEN summarised
         ELSE Return(ScenarioResult(TRUE, summarised.value, None))

\* the except clauses of each try block, in source order
StreamHandlers == <<"Exception">>

\* the synchronous try block without its last clause
SyncHandlersNoCatchAll == <<"BadRequestError", "APIError">>

\* the synchronous try block with the base class tried first
SyncHandlersApiFirst == <<"APIError", "BadRequestError", "Exception">>

SyncHandlers == <<"BadRequestError", "APIError", "Exception">>

ApiErrorPrefix == <<"APIError: ">>

\* the result an except clause returns
HandleStream(clause, scenario, exc) == ScenarioResult(FALSE, EmptyDict, Some(Str(exc)))

\* the except clauses with the server-class message left bare
HandleSyncNoPrefix(clause, scenario, exc) ==
    IF clause = "BadRequestError" /\ scenario.expect_failure
    THEN ScenarioResult(TRUE, EmptyDict, Some(Str(exc)))
    ELSE ScenarioResult(FALSE, EmptyDict, Some(Str(exc)))

\* the except clauses with a rejection always a failure
HandleSyncRejectFails(clause, scenario, exc) ==
    IF clause = "APIError"
    THEN ScenarioResult(FALSE, EmptyDict, Some(ApiErrorPrefix \o Str(exc)))
    ELSE ScenarioResult(FALSE, EmptyDict, Some(Str(exc)))

HandleSync(clause, scenario, exc) ==
    CASE clause = "BadRequestError" ->
            IF scenario.expect_failure
            THEN ScenarioResult(TRUE, EmptyDict, Some(Str(exc)))
            ELSE ScenarioResult(FALSE, EmptyDict, Some(Str(exc)))
      [] clause = "APIError" ->
            ScenarioResult(FALSE, EmptyDict, Some(ApiErrorPrefix \o Str(exc)))
      [] OTHER -> ScenarioResult(FALSE, EmptyDict, Some(Str(exc)))

\* run_single_request(client, scenario, model=model): client is the backend's
\* reaction to the one create call made; the outcome is a return or a raise
RunSingleRequest(client, scenario, model) ==
    IF StreamFlag(scenario, model)
    THEN LET body == StreamBody(client)
             h == IF body.type = "raise"
                  THEN FirstHandler(StreamHandlers, body.exc.cls, 1) ELSE 0
         IN  IF h = 0 THEN body
             ELSE Return(HandleStream(StreamHandlers[h], scenario, body.exc))
    ELSE LET body == SyncBody(client)
             h == IF body.type = "raise"
                  THEN FirstHandler(SyncHandlers, body.exc.cls, 1) ELSE 0
         IN  IF h = 0 THEN body
             ELSE Return(HandleSync(SyncHandlers[h], scenario, body.exc))

(***************************************************************************)
(* Expectation Evaluator                                                   *)
(***************************************************************************)
\* repr(x) of an Optional[str]
Repr(o) == IF IsNone(o) THEN <<"None">> ELSE <<"'", Val(o), "'">>

\* the tool names in lexicographic order
ToolOrder == <<"calculate_expression", "echo", "zeta">>

\* the items of repr(sorted(names)) of a set of tool names, from position i on
RECURSIVE ReprSorted(_, _)
ReprSorted(names, i) ==
    IF i > Len(ToolOrder) THEN <<>>
    ELSE LET rest == ReprSorted(names, i + 1) IN
         IF ToolOrder[i] \in names
         THEN <<"'", ToolOrder[i], "'">> \o (IF Len(rest) > 0 THEN <<", ">> ELSE <<>>) \o rest
         ELSE rest

\* "; ".join(feedback)
RECURSIVE JoinFeedback(_)
JoinFeedback(feedback) ==
    IF Len(feedback) = 0 THEN <<>>
    ELSE IF Len(feedback) = 1 THEN Head(feedback)
    ELSE Head(feedback) \o <<"; ">> \o JoinFeedback(Tail(feedback))

\* the names of the calls of a summary's tool-call list, in order
RECURSIVE ToolNames(_)
ToolNames(calls) ==
    IF Len(calls) = 0 THEN <<>> ELSE <<Head(calls).function.name>> \o ToolNames(Tail(calls))

Range(f) == {f[i] : i \in DOMAIN f}

FinishReasonFeedback(summary, expectations) ==
    IF IsNone(expectations.finish_reason) THEN <<>>
    ELSE LET actual == Get(summary, "finish_reason") IN
         IF actual # expectations.finish_reason
         THEN << <<"finish_reason expected ">> \o Repr(expectations.finish_reason)
                 \o <<" got ">> \o Repr(actual) >>
         ELSE <<>>

ToolCallFeedback(summary, expectations) ==
    IF IsNone(expectations.tool_call_count) THEN <<>>
    ELSE LET tool_calls == OrEmpty(Get(summary, "tool_calls"))
             actual_count == Len(tool_calls)
             expected == Val(expectations.tool_call_count)
             \* "if expectations.requires_tools": None and the empty set read no name
             missing == IF IsNone(expectations.requires_tools) THEN {}
                        ELSE IF Val(expectations.requires_tools) = {} THEN {}
                        ELSE Val(expectations.requires_tools) \ Range(ToolNames(tool_calls))
         IN  (IF actual_count # expected
              THEN << <<"tool_call_count expected ">> \o ToStr(expected)
                      \o <<" got ">> \o ToStr(actual_count) >>
              ELSE <<>>)
             \o (IF missing # {}
                 THEN << <<"missing tool calls for: [">> \o ReprSorted(missing, 1) \o <<"]">> >>
                 ELSE <<>>)

\* the length the min_content_length check compares
ActualLength(summary) ==
    IF IsNone(Get(summary, "content_length"))
    THEN Len(IF "content_preview" \in DOMAIN summary
             THEN Val(summary.content_preview) ELSE <<>>)
    ELSE Val(Get(summary, "content_length"))

\* the min_content_length check with an exclusive bound
ContentLengthFeedbackExclusive(summary, expectations) ==
    IF IsNone(expectations.min_content_length) THEN <<>>
    ELSE LET bound == Val(expectations.min_content_length)
             actual_length == ActualLength(summary)
         IN  IF actual_length <= bound
             THEN << <<"content too short (expected >=">> \o ToStr(bound)
                     \o <<", got ">> \o ToStr(actual_length) \o <<")">> >>
             ELSE <<>>

\* the message writes the sign U+2265 where the model writes ">="
ContentLengthFeedback(summary, expectations) ==
    IF IsNone(expectations.min_content_length) THEN <<>>
    ELSE LET bound == Val(expectations.min_content_length)
             actual_length == ActualLength(summary)
         IN  IF actual_length < bound
             THEN << <<"content too short (expected >=">> \o ToStr(bound)
                     \o <<", got ">> \o ToStr(actual_length) \o <<")">> >>
             ELSE <<>>

Evaluation(passed, feedback) == [passed |-> passed, feedback |-> feedback]

\* evaluate_expectations looking at the result before the expectations
EvaluateExpectationsResultFirst(result, expectations) ==
    IF IsNone(result)
    THEN Evaluation(FALSE, Some(<<"scenario skipped; expectations not evaluated">>))
    ELSE IF Truthy(Val(result).error) /\ ~Val(result).ok
    THEN Evaluation(FALSE, Some(<<"request failed: ">> \o Val(Val(result).error)))
    ELSE IF IsNone(expectations) THEN Evaluation(TRUE, None)
    ELSE IF DOMAIN Val(result).summary = {}
    THEN Evaluation(FALSE, Some(<<"no summary produced">>))
    ELSE LET summary == Val(result).summary
             feedback == FinishReasonFeedback(summary, Val(expectations))
                         \o ToolCallFeedback(summary, Val(expectations))
                         \o ContentLengthFeedback(summary, Val(expectations))
         IN  Evaluation(Len(feedback) = 0,
                        IF Len(feedback) > 0 THEN Some(JoinFeedback(feedback)) ELSE None)

\* evaluate_expectations letting an absent result pass
EvaluateExpectationsAbsentPasses(result, expectations) ==
    IF IsNone(expectations) \/ IsNone(result) THEN Evaluation(TRUE, None)
    ELSE IF Truthy(Val(result).error) /\ ~Val(result).ok
    THEN Evaluation(FALSE, Some(<<"request failed: ">> \o Val(Val(result).error)))
    ELSE IF DOMAIN Val(result).summary = {}
    THEN Evaluation(FALSE, Some(<<"no summary produced">>))
    ELSE LET summary == Val(result).summary
             feedback == FinishReasonFeedback(summary, Val(expectations))
                         \o ToolCallFeedback(summary, Val(expectations))
                         \o ContentLengthFeedback(summary, Val(expectations))
         IN  Evaluation(Len(feedback) = 0,
                        IF Len(feedback) > 0 THEN Some(JoinFeedback(feedback)) ELSE None)

\* evaluate_expectations(result, expectations): result and expectations are Optional
EvaluateExpectations(result, expectations) ==
    IF IsNone(expectations) THEN Evaluation(TRUE, None)
    ELSE IF IsNone(result)
    THEN Evaluation(FALSE, Some(<<"scenario skipped; expectations not evaluated">>))
    ELSE IF Truthy(Val(result).error) /\ ~Val(result).ok
    THEN Evaluation(FALSE, Some(<<"request failed: ">> \o Val(Val(result).error)))
    ELSE IF DOMAIN Val(result).summary = {}
    THEN Evaluation(FALSE, Some(<<"no summary produced">>))
    ELSE LET summary == Val(result).summary
             feedback == FinishReasonFeedback(summary, Val(expectations))
                         \o ToolCallFeedback(summary, Val(expectations))
                         \o ContentLengthFeedback(summary, Val(expectations))
         IN  Evaluation(Len(feedback) = 0,
                        IF Len(feedback) > 0 THEN Some(JoinFeedback(feedback)) ELSE None)

\* the exception evaluate_expectations raises on its way, None when it returns:
\* call["function"]["name"] of line 459 and len(preview) of line 470
EvaluateRaises(result, expectations) ==
    IF IsNone(expectations) \/ IsNone(result) THEN None
    ELSE IF Truthy(Val(result).error) /\ ~Val(result).ok THEN None
    ELSE IF DOMAIN Val(result).summary = {} THEN None
    ELSE LET summary == Val(result).summary
             tool_calls == OrEmpty(Get(summary, "tool_calls"))
             required == Val(expectations).requires_tools
             keyless == {i \in DOMAIN tool_calls :
                            \/ "function" \notin DOMAIN tool_calls[i]
                            \/ "name" \notin DOMAIN tool_calls[i].function}
             first == CHOOSE i \in keyless : \A j \in keyless : i <= j
         IN  IF /\ ~IsNone(Val(expectations).tool_call_count)
                /\ ~IsNone(required) /\ Val(required) # {}
                /\ keyless # {}
             THEN Some(Exc("KeyError", <<IF "function" \notin DOMAIN tool_calls[first]
                                         THEN "'function'" ELSE "'name'">>))
             ELSE IF /\ ~IsNone(Val(expectations).min_content_length)
                     /\ IsNone(Get(summary, "content_length"))
                     /\ "content_preview" \in DOMAIN summary
                     /\ IsNone(summary.content_preview)
             THEN Some(Exc("TypeError", <<"object of type 'NoneType' has no len()">>))
             ELSE None

\* the outcome of the call evaluate_expectations(result, expectations)
EvaluateOutcome(result, expectations) ==
    IF EvaluateRaises(result, expectations) # None
    THEN Raise(Val(EvaluateRaises(result, expectations)))
    ELSE Return(EvaluateExpectations(result, expectations))

(***************************************************************************)
(* Comparator                                                              *)
(***************************************************************************)
SummaryToolNames(summary) == ToolNames(OrEmpty(Get(summary, "tool_calls")))

\* the differing keys with the tool calls compared as sets of names
DiffKeysNameSets(l, o) ==
    {key \in {"finish_reason", "role"} : Get(l, key) # Get(o, key)}
    \cup (IF Range(SummaryToolNames(l)) # Range(SummaryToolNames(o))
          THEN {"tool_calls"} ELSE {})
    \cup (IF /\ ("content_length" \in DOMAIN l \/ "content_length" \in DOMAIN o)
             /\ Get(l, "content_length") # Get(o, "content_length")
          THEN {"content_length"} ELSE {})

DiffKeys(l, o) ==
    {key \in {"finish_reason", "role"} : Get(l, key) # Get(o, key)}
    \cup (IF SummaryToolNames(l) # SummaryToolNames(o) THEN {"tool_calls"} ELSE {})
    \cup (IF /\ ("content_length" \in DOMAIN l \/ "content_length" \in DOMAIN o)
             /\ Get(l, "content_length") # Get(o, "content_length")
          THEN {"content_length"} ELSE {})

\* a diff entry with the two sides exchanged
DiffEntrySwapped(l, o, key) ==
    IF key = "tool_calls"
    THEN [local |-> SummaryToolNames(l), openai |-> SummaryToolNames(o)]
    ELSE [local |-> Get(o, key), openai |-> Get(l, key)]

DiffEntry(l, o, key) ==
    IF key = "tool_calls"
    THEN [local |-> SummaryToolNames(l), openai |-> SummaryToolNames(o)]
    ELSE [local |-> Get(l, key), openai |-> Get(o, key)]

\* compare_summaries comparing empty summaries like any other
CompareSummariesSkipsEmptyCheck(local_result, openai_result) ==
    IF IsNone(local_result) \/ IsNone(openai_result) THEN None
    ELSE LET l == Val(local_result).summary
             o == Val(openai_result).summary
             keys == DiffKeys(l, o)
         IN  IF keys = {} THEN None ELSE Some([key \in keys |-> DiffEntry(l, o, key)])

\* compare_summaries returning the diff mapping as it is, empty or not
CompareSummariesKeepsEmpty(local_result, openai_result) ==
    IF IsNone(local_result) \/ IsNone(openai_result) THEN None
    ELSE IF DOMAIN Val(local_result).summary = {} \/ DOMAIN Val(openai_result).summary = {}
    THEN None
    ELSE LET l == Val(local_result).summary
             o == Val(openai_result).summary
             keys == DiffKeys(l, o)
         IN  Some([key \in keys |-> DiffEntry(l, o, key)])

\* compare_summaries asking only the local summary to be there
CompareSummariesLocalSummaryOnly(local_result, openai_result) ==
    IF IsNone(local_result) \/ IsNone(openai_result) THEN None
    ELSE IF DOMAIN Val(local_result).summary = {} THEN None
    ELSE LET l == Val(local_result).summary
             o == Val(openai_result).summary
             keys == DiffKeys(l, o)
         IN  IF keys = {} THEN None ELSE Some([key \in keys |-> DiffEntry(l, o, key)])

\* compare_summaries(local_result, openai_result): Optional diff dict
CompareSummaries(local_result, openai_result) ==
    IF IsNone(local_result) \/ IsNone(openai_result) THEN None
    ELSE IF DOMAIN Val(local_result).summary = {} \/ DOMAIN Val(openai_result).summary = {}
    THEN None
    ELSE LET l == Val(local_result).summary
             o == Val(openai_result).summary
             keys == DiffKeys(l, o)
         IN  IF keys = {} THEN None ELSE Some([key \in keys |-> DiffEntry(l, o, key)])

(***************************************************************************)
(* What a backend can do when the create call is made                      *)
(***************************************************************************)
MaxEvents == 2

Messages == {<<>>, <<"m1">>}

RaisedClasses == {"BadRequestError", "APIError", "Exception"}

Raised == {Exc(cls, msg) : cls \in RaisedClasses, msg \in Messages}

FinishReasons == {None, Some(""), Some("stop"), Some("length"), Some("tool_calls")}

ToolCall(id, name) ==
    [id |-> id, type |-> "function", function |-> [name |-> name, arguments |-> Text(<<"{", "}">>)]]

ToolCallLists ==
    {None, Some(<<>>), Some(<<ToolCall("c1", "echo")>>),
     Some(<<ToolCall("c1", "echo"), ToolCall("c2", "calculate_expression")>>)}

Contents == {None, Some(<<>>), Some(<<"h", "e", "l", "l", "o">>)}

Choices ==
    {[finish_reason |-> fr,
      message |-> [role |-> "assistant", content |-> c, tool_calls |-> tc]] :
        fr \in FinishReasons \ {Some("")}, c \in Contents, tc \in ToolCallLists}
    \cup {[finish_reason |-> Some("stop"),
            message |-> [role |-> "assistant", content |-> c, tool_calls |-> None,
                         parsed |-> Some([name |-> "x"])]] : c \in Contents}

\* a synchronous create call: raises, or returns a completion
SyncClients ==
    {[kind |-> "raise", exc |-> e] : e \in Raised}
    \cup {[kind |-> "response", response |-> [choices |-> <<>>]]}
    \cup {[kind |-> "response", response |-> [choices |-> <<c>>]] : c \in Choices}

Deltas == {None, Some(<<>>), Some(<<"A">>), Some(<<"B">>), Some(<<" ">>), Some(<<"\n">>)}

\* one step of the stream iterator: a chunk (possibly without choices) or a raise
StreamItems ==
    {[type |-> "chunk", choices |-> <<[delta |-> [content |-> d], finish_reason |-> fr]>>] :
        d \in Deltas, fr \in FinishReasons \ {Some("tool_calls")}}
    \cup {[type |-> "chunk", choices |-> <<>>]}
    \cup {[type |-> "raise", exc |-> Exc("Exception", <<"m1">>)]}

SeqsUpTo(S, n) == UNION {[1..k -> S] : k \in 0..n}

\* a streaming create call: raises, or returns an iterator
StreamClients ==
    {[kind |-> "raise", exc |-> e] : e \in Raised}
    \cup {[kind |-> "stream", items |-> items] : items \in SeqsUpTo(StreamItems, MaxEvents)}

LocalModel == "ondevice"

Requests ==
    {[messages |-> "m"], [messages |-> "m", model |-> "custom"],
     [messages |-> "m", stream |-> FALSE], [messages |-> "m", stream |-> TRUE]}

\* the scenarios the executor is exercised with
ExecScenarios ==
    {Scenario("s", rq, ef, ex) :
        rq \in Requests, ef \in BOOLEAN,
        ex \in {None, Some(ScenarioExpectations(Some("length"), None, None, None))}}

ClientsFor(scenario, model) ==
    IF StreamFlag(scenario, model) THEN StreamClients ELSE SyncClients

(***************************************************************************)
(* Scenario Registry                                                       *)
(***************************************************************************)
\* build_scenarios(): the request bodies keep their keys, their values are named
BuildScenarios ==
    << Scenario("basic_completion", [messages |-> "fruit"], FALSE,
                Some(ScenarioExpectations(Some("stop"), None, None, Some(5)))),
       Scenario("structured_json",
                [messages |-> "sandwich", response_format |-> "SandwichSummary"], FALSE,
                Some(ScenarioExpectations(Some("stop"), None, None, Some(10)))),
       Scenario("tool_call", [messages |-> "echo hello", tools |-> "echo"], FALSE,
                Some(ScenarioExpectations(Some("tool_calls"), Some(1), Some({"echo"}), None))),
       Scenario("tool_choice_none",
                [messages |-> "explain", tools |-> "echo", tool_choice |-> "none"], FALSE,
                Some(ScenarioExpectations(Some("stop"), Some(0), None, Some(20)))),
       Scenario("streaming", [messages |-> "ocean", stream |-> TRUE], FALSE,
                Some(ScenarioExpectations(Some("stop"), None, None, Some(30)))),
       Scenario("invalid_schema", [messages |-> "hello", response_format |-> "Bad"], TRUE,
                None),
       Scenario("multi_turn_with_tool",
                [messages |-> "32 * 14", tools |-> "calculate_expression"], FALSE,
                Some(ScenarioExpectations(Some("tool_calls"), Some(1),
                                          Some({"calculate_expression"}), None))),
       Scenario("json_list_response",
                [messages |-> "chores", response_format |-> "ChorePlan"], FALSE,
                Some(ScenarioExpectations(Some("stop"), None, None, Some(15)))) >>

(***************************************************************************)
(* Report Aggregator: main()                                               *)
(***************************************************************************)
ScenarioReport(scenario, local, openai, passed, feedback, comparison) ==
    [scenario |-> scenario, local_result |-> local, openai_result |-> openai,
     expectation_passed |-> passed, expectation_feedback |-> feedback,
     comparison |-> comparison]

\* print_scenario_table returning the local call's success alone
PrintScenarioTableLocalOnly(report) ==
    IsNone(report.local_result) \/ Val(report.local_result).ok

\* print_scenario_table asking both backends to have succeeded
PrintScenarioTableBothOk(report) ==
    /\ IsNone(report.local_result) \/ Val(report.local_result).ok
    /\ IsNone(report.openai_result) \/ Val(report.openai_result).ok
    /\ report.expectation_passed

\* the value print_scenario_table returns
PrintScenarioTable(report) ==
    LET local_ok == IsNone(report.local_result) \/ Val(report.local_result).ok
    IN  local_ok /\ report.expectation_passed

\* [scenario for scenario in scenarios if keep(scenario.name)]
RECURSIVE FilterByName(_, _, _)
FilterByName(scenarios, names, keep) ==
    IF Len(scenarios) = 0 THEN <<>>
    ELSE (IF (Head(scenarios).name \in names) = keep THEN <<Head(scenarios)>> ELSE <<>>)
         \o FilterByName(Tail(scenarios), names, keep)

\* the scenarios left by --only and --exclude
SelectScenarios(only, exclude) ==
    LET wanted == IF IsNone(only) \/ Val(only) = {} THEN BuildScenarios
                  ELSE FilterByName(BuildScenarios, Val(only), TRUE)
    IN  IF exclude = {} THEN wanted ELSE FilterByName(wanted, exclude, FALSE)

\* a report that keeps only the results of calls that succeeded
BuildReportDropsFailed(scenario, local_result, openai_result) ==
    LET kept(result) == IF IsNone(result) \/ Val(result).ok THEN result ELSE None
        evaluation == EvaluateExpectations(local_result, scenario.expectations)
    IN  ScenarioReport(scenario, kept(local_result), kept(openai_result), evaluation.passed,
                       evaluation.feedback, CompareSummaries(local_result, openai_result))

\* the report main builds for one scenario from the two results
BuildReport(scenario, local_result, openai_result) ==
    LET evaluation == EvaluateExpectations(local_result, scenario.expectations)
    IN  ScenarioReport(scenario, local_result, openai_result, evaluation.passed,
                       evaluation.feedback, CompareSummaries(local_result, openai_result))

\* the count of the scenarios whose local call succeeded, expectations aside
RECURSIVE CountPassedLocalOk(_)
CountPassedLocalOk(rs) ==
    IF Len(rs) = 0 THEN 0
    ELSE (IF IsNone(Head(rs).local_result) \/ Val(Head(rs).local_result).ok THEN 1 ELSE 0)
         + CountPassedLocalOk(Tail(rs))

\* the count printed as "Scenarios passed"
RECURSIVE CountPassed(_)
CountPassed(rs) ==
    IF Len(rs) = 0 THEN 0
    ELSE (IF (IsNone(Head(rs).local_result) \/ Val(Head(rs).local_result).ok)
             /\ Head(rs).expectation_passed THEN 1 ELSE 0)
         + CountPassed(Tail(rs))

(***************************************************************************)
(* The inputs of a run: arguments, environment and the backends' reactions *)
(***************************************************************************)
MaxOnly == 2

OpenaiModel == "gpt-4.1-mini"

\* the names --only is given, among them one that names no scenario
OnlyPool ==
    {"basic_completion", "tool_call", "tool_choice_none", "streaming", "invalid_schema",
     "unknown"}

OnlyChoices == {Some(names) : names \in {S \in SUBSET OnlyPool : Cardinality(S) \in 1..MaxOnly}}

ExcludeChoices == {{}, {"invalid_schema"}}

ArgsChoices ==
    [only : OnlyChoices, exclude : ExcludeChoices, skip_local : BOOLEAN,
     skip_openai : BOOLEAN, openai_api_key : BOOLEAN, json_report : BOOLEAN,
     local_model : {LocalModel}, openai_model : {OpenaiModel}]

Rep(c, n) == [i \in 1..n |-> c]

\* a reply shorter than every min_content_length of the registry, and one that
\* is long enough for all of them
ShortText == Rep("a", 3)

LongText(c) == Rep(c, 30)

Response(fr, content, tool_calls) ==
    [kind |-> "response",
     response |-> [choices |-> <<[finish_reason |-> fr,
                                  message |-> [role |-> "assistant", content |-> content,
                                               tool_calls |-> tool_calls]]>>]]

Chunk(content, fr) ==
    [type |-> "chunk", choices |-> <<[delta |-> [content |-> content], finish_reason |-> fr]>>]

Stream(items) == [kind |-> "stream", items |-> items]

Raising(cls) == [kind |-> "raise", exc |-> Exc(cls, <<"m1">>)]

LocalSyncClients ==
    {Raising("BadRequestError"), Raising("APIError"), Raising("Exception"),
     Response(Some("stop"), Some(LongText("a")), None),
     Response(Some("stop"), Some(ShortText), None),
     Response(Some("tool_calls"), None, Some(<<ToolCall("c1", "echo")>>))}

LocalStreamClients ==
    {Raising("BadRequestError"),
     Stream(<<Chunk(Some(LongText("a")), None), Chunk(None, Some("stop"))>>),
     Stream(<<Chunk(Some(<<"A">>), None), Chunk(Some(<<"B">>), Some("stop"))>>),
     Stream(<<Chunk(Some(LongText("a")), Some("length"))>>),
     Stream(<<Chunk(Some(<<"A">>), None), [type |-> "raise", exc |-> Exc("APIError", <<"m1">>)]>>)}

OpenaiSyncClients ==
    {Raising("BadRequestError"), Raising("APIError"),
     Response(Some("stop"), Some(LongText("b")), None),
     Response(Some("tool_calls"), None, Some(<<ToolCall("c9", "echo")>>))}

OpenaiStreamClients ==
    {Raising("APIError"),
     Stream(<<Chunk(Some(LongText("b")), Some("stop"))>>),
     Stream(<<Chunk(Some(<<"A">>), None), Chunk(Some(<<"B">>), Some("stop"))>>)}

LocalClients(scenario, model) ==
    IF StreamFlag(scenario, model) THEN LocalStreamClients ELSE LocalSyncClients

OpenaiClients(scenario, model) ==
    IF StreamFlag(scenario, model) THEN OpenaiStreamClients ELSE OpenaiSyncClients

(***************************************************************************)
(* State                                                                   *)
(***************************************************************************)
VARIABLES
    pc,             \* where main is: "start", "local", "openai", "report", "finish", "done"
    args,           \* the parsed arguments and the environment
    scenarios,      \* the selected scenarios
    idx,            \* the position of the for loop in scenarios
    local_result,   \* Optional[ScenarioResult] of the current scenario
    openai_result,  \* Optional[ScenarioResult] of the current scenario
    reports,        \* list[ScenarioReport]
    success,        \* the accumulated flag
    calls,          \* the create calls made so far: backend, scenario, kwargs, reaction
    output,         \* what the run printed and wrote: pass count, total, JSON success
    exit_code       \* Optional[int]: the value main returns

main_vars ==
    <<pc, args, scenarios, idx, local_result, openai_result, reports, success, calls,
      output, exit_code>>

NoOutput == [passed |-> None, total |-> None, json_success |-> None]

MainInit ==
    /\ pc = "start"
    /\ args \in ArgsChoices
    /\ scenarios = <<>>
    /\ idx = 0
    /\ local_result = None
    /\ openai_result = None
    /\ reports = <<>>
    /\ success = TRUE
    /\ calls = <<>>
    /\ output = NoOutput
    /\ exit_code = None

\* lines 649-678: selection, the two early returns, the clients
Start ==
    /\ pc = "start"
    /\ LET selected == SelectScenarios(args.only, args.exclude) IN
       /\ scenarios' = selected
       /\ IF Len(selected) = 0
          THEN pc' = "done" /\ exit_code' = Some(0) /\ idx' = idx
          ELSE IF ~args.skip_openai /\ ~args.openai_api_key
          THEN pc' = "done" /\ exit_code' = Some(2) /\ idx' = idx
          ELSE pc' = "local" /\ exit_code' = exit_code /\ idx' = 1
    /\ UNCHANGED <<args, local_result, openai_result, reports, success, calls, output>>

\* what the backend did when called: the class it raised, or the kind of its answer
Reaction(client) == IF client.kind = "raise" THEN client.exc.cls ELSE client.kind

Call(backend, scenario, model, client) ==
    [backend |-> backend, scenario |-> scenario.name,
     kwargs |-> CreateKwargs(scenario, model), reaction |-> Reaction(client)]

\* lines 680-684: the local call of the current scenario
LocalCall ==
    /\ pc = "local"
    /\ IF args.skip_local
       THEN /\ local_result' = None /\ calls' = calls /\ pc' = "openai"
            /\ exit_code' = exit_code /\ scenarios' = scenarios
       ELSE \E client \in LocalClients(scenarios[idx], args.local_model) :
               LET out == RunSingleRequest(client, scenarios[idx], args.local_model) IN
               /\ calls' = Append(calls, Call("local", scenarios[idx], args.local_model, client))
               /\ scenarios' = [scenarios EXCEPT
                                  ![idx] = ScenarioAfterCall(scenarios[idx], args.local_model)]
               /\ IF out.type = "return"
                  THEN local_result' = Some(out.value) /\ pc' = "openai"
                       /\ exit_code' = exit_code
                  ELSE local_result' = None /\ pc' = "done" /\ exit_code' = Some(1)
    /\ UNCHANGED <<args, idx, openai_result, reports, success, output>>

\* lines 685-689: the reference call of the current scenario
OpenaiCall ==
    /\ pc = "openai"
    /\ IF args.skip_openai
       THEN /\ openai_result' = None /\ calls' = calls /\ pc' = "report"
            /\ exit_code' = exit_code /\ scenarios' = scenarios
       ELSE \E client \in OpenaiClients(scenarios[idx], args.openai_model) :
               LET out == RunSingleRequest(client, scenarios[idx], args.openai_model) IN
               /\ calls' = Append(calls, Call("openai", scenarios[idx], args.openai_model, client))
               /\ scenarios' = [scenarios EXCEPT
                                  ![idx] = ScenarioAfterCall(scenarios[idx], args.openai_model)]
               /\ IF out.type = "return"
                  THEN openai_result' = Some(out.value) /\ pc' = "report"
                       /\ exit_code' = exit_code
                  ELSE openai_result' = None /\ pc' = "done" /\ exit_code' = Some(1)
    /\ UNCHANGED <<args, idx, local_result, reports, success, output>>

\* the reports held back until the last scenario has run
ReportAtTheEnd ==
    /\ pc = "report"
    /\ LET report == BuildReport(scenarios[idx], local_result, openai_result) IN
       /\ reports' = IF idx < Len(scenarios) THEN reports ELSE Append(reports, report)
       /\ success' = (success /\ PrintScenarioTable(report))
    /\ IF idx < Len(scenarios)
       THEN idx' = idx + 1 /\ pc' = "local"
       ELSE idx' = idx /\ pc' = "finish"
    /\ local_result' = None
    /\ openai_result' = None
    /\ UNCHANGED <<args, scenarios, calls, output, exit_code>>

\* lines 690-702: evaluation, comparison, the report, the accumulated flag
Report ==
    /\ pc = "report"
    /\ LET report == BuildReport(scenarios[idx], local_result, openai_result) IN
       /\ reports' = Append(reports, report)
       /\ success' = (success /\ PrintScenarioTable(report))
    /\ IF idx < Len(scenarios)
       THEN idx' = idx + 1 /\ pc' = "local"
       ELSE idx' = idx /\ pc' = "finish"
    /\ local_result' = None
    /\ openai_result' = None
    /\ UNCHANGED <<args, scenarios, calls, output, exit_code>>

\* lines 704-740: the summary line, the JSON report, the exit status
Finish ==
    /\ pc = "finish"
    /\ output' = [passed |-> Some(CountPassed(reports)),
                  total |-> Some(Len(reports)),
                  json_success |-> IF args.json_report THEN Some(success) ELSE None]
    /\ exit_code' = Some(IF success THEN 0 ELSE 1)
    /\ pc' = "done"
    /\ UNCHANGED <<args, scenarios, idx, local_result, openai_result, reports, success, calls>>

(***************************************************************************)
(* One scenario on its own: run_single_request, then evaluate_expectations *)
(***************************************************************************)
VARIABLES
    ex_scenario,    \* Optional[Scenario]: the scenario executed
    ex_client,      \* Optional: the backend's reaction, None when the backend is skipped
    ex_out,         \* Optional: the outcome of run_single_request
    ev_out,         \* Optional: the value of evaluate_expectations
    ev_exc,         \* Optional: the exception evaluate_expectations raised
    ref_client,     \* Optional: the reference backend's reaction, None when skipped
    ref_out,        \* Optional: the outcome of the reference run_single_request
    cmp_out         \* Optional: the value of compare_summaries

exec_vars == <<ex_scenario, ex_client, ex_out, ev_out, ev_exc, ref_client, ref_out, cmp_out>>

\* a second run of main over the same arguments and the same local reactions,
\* kept as far as pass/fail reads it
VARIABLES shadow

\* the tool-execution loop of one agent script, over one conversation
VARIABLES
    ag_script,      \* which script runs: "multiturn", "coding" or "interactive"; None when idle
    ag_pc,          \* where the script stands: "prompt", "request", "respond", "done", "raised", "exit"
    ag_messages,    \* messages: the history the script keeps
    ag_sent,        \* the messages argument of every create call so far
    ag_received     \* the assistant message of every response so far

agent_vars == <<ag_script, ag_pc, ag_messages, ag_sent, ag_received>>

vars == <<main_vars, exec_vars, shadow, agent_vars>>

\* no agent script runs
AgentIdle ==
    /\ ag_script = None
    /\ ag_pc = "idle"
    /\ ag_messages = <<>>
    /\ ag_sent = <<>>
    /\ ag_received = <<>>

\* nothing evaluated, no reference side, nothing compared
CompareIdle == ev_exc = None /\ ref_client = None /\ ref_out = None /\ cmp_out = None

ExecIdle ==
    ex_scenario = None /\ ex_client = None /\ ex_out = None /\ ev_out = None /\ CompareIdle

MainIdle ==
    /\ pc = "idle"
    /\ args = None
    /\ scenarios = <<>>
    /\ idx = 0
    /\ local_result = None
    /\ openai_result = None
    /\ reports = <<>>
    /\ success = TRUE
    /\ calls = <<>>
    /\ output = NoOutput
    /\ exit_code = None

ExecInit ==
    /\ MainIdle
    /\ shadow = None
    /\ AgentIdle
    /\ ex_scenario \in {Some(sc) : sc \in ExecScenarios}
    /\ ex_client \in {Some(c) : c \in ClientsFor(Val(ex_scenario), LocalModel)}
    /\ ex_out = None
    /\ ev_out = None
    /\ CompareIdle

\* one call of run_single_request
ExecRun ==
    /\ ex_out = None
    /\ ex_client # None
    /\ ex_out' = Some(RunSingleRequest(Val(ex_client), Val(ex_scenario), LocalModel))
    /\ ex_scenario' = Some(ScenarioAfterCall(Val(ex_scenario), LocalModel))
    /\ UNCHANGED <<ex_client, ev_out, ev_exc, ref_client, ref_out, cmp_out>>
    /\ UNCHANGED <<main_vars, shadow, agent_vars>>

\* the expectations a scenario can declare
ExpectationChoices ==
    {None} \cup
    {Some(ScenarioExpectations(fr, tcc, rt, mcl)) :
        fr \in {None, Some("stop"), Some("tool_calls")},
        tcc \in {None, Some(0), Some(1)},
        rt \in {None, Some({}), Some({"echo"}), Some({"echo", "zeta"})},
        mcl \in {None, Some(5), Some(PreviewLen + 1)}}

EvalScenarios ==
    {Scenario("s", rq, ef, ex) :
        rq \in {[messages |-> "m"], [messages |-> "m", stream |-> TRUE]},
        ef \in BOOLEAN, ex \in ExpectationChoices}

ContentLens == {Len(ShortText), 5, PreviewLen + 10}

EvalSyncClients ==
    {Raising("BadRequestError"), Raising("APIError"), Raising("Exception"),
     [kind |-> "response", response |-> [choices |-> <<>>]]}
    \cup {Response(fr, c, tc) :
            fr \in {None, Some("stop"), Some("tool_calls")},
            c \in {None} \cup {Some(Rep("a", n)) : n \in ContentLens},
            tc \in ToolCallLists \cup
                   {Some(<<ToolCall("c1", "calculate_expression"), ToolCall("c2", "echo")>>)}}

EvalStreamClients ==
    LocalStreamClients
    \cup {Stream(<<Chunk(Some(Rep("a", n)), Some("stop"))>>) : n \in ContentLens}
    \cup {Stream(<<>>)}

EvalClients(scenario) ==
    {None} \cup {Some(c) : c \in IF StreamFlag(scenario, LocalModel)
                                 THEN EvalStreamClients ELSE EvalSyncClients}

EvalInit ==
    /\ MainIdle
    /\ shadow = None
    /\ AgentIdle
    /\ ex_scenario \in {Some(sc) : sc \in EvalScenarios}
    /\ ex_client \in EvalClients(Val(ex_scenario))
    /\ ex_out = None
    /\ ev_out = None
    /\ CompareIdle

\* the local result main hands to evaluate_expectations (lines 680-684)
LocalResultOf(client, out) == IF IsNone(client) THEN None ELSE Some(Val(out).value)

\* line 690: evaluate_expectations(local_result, scenario.expectations)
EvalStep ==
    /\ ev_out = None
    /\ ev_exc = None
    /\ ex_scenario # None
    /\ IsNone(ex_client) \/ (ex_out # None /\ Val(ex_out).type = "return")
    /\ LET out == EvaluateOutcome(LocalResultOf(ex_client, ex_out),
                                  Val(ex_scenario).expectations)
       IN  IF out.type = "return"
           THEN ev_out' = Some(out.value) /\ ev_exc' = ev_exc
           ELSE ev_out' = ev_out /\ ev_exc' = Some(out.exc)
    /\ UNCHANGED <<ex_scenario, ex_client, ex_out, ref_client, ref_out, cmp_out>>
    /\ UNCHANGED <<main_vars, shadow, agent_vars>>

(***************************************************************************)
(* One scenario on both backends: two run_single_request calls, then       *)
(* compare_summaries                                                       *)
(***************************************************************************)
ToolCallWith(id, name, arguments) ==
    [id |-> id, type |-> "function", function |-> [name |-> name, arguments |-> arguments]]

CompareScenarios ==
    {Scenario("s", rq, ef, None) :
        rq \in {[messages |-> "m"], [messages |-> "m", stream |-> TRUE]},
        ef \in BOOLEAN}

\* tool-call lists that differ in names, in order, or in arguments only
CompareToolCallLists ==
    {None,
     Some(<<ToolCall("c1", "echo")>>),
     Some(<<ToolCallWith("c9", "echo", Text(<<"{", "\"", "text", "\"", ": ", "\"", "hi", "\"", "}">>))>>),
     Some(<<ToolCall("c1", "echo"), ToolCall("c2", "calculate_expression")>>),
     Some(<<ToolCall("c1", "calculate_expression"), ToolCall("c2", "echo")>>)}

CompareSyncClients ==
    {Raising("BadRequestError"), Raising("APIError"),
     [kind |-> "response", response |-> [choices |-> <<>>]],
     [kind |-> "response",
      response |-> [choices |-> <<[finish_reason |-> Some("stop"),
                                   message |-> [role |-> "model", content |-> Some(ShortText),
                                                tool_calls |-> None]]>>]]}
    \cup {Response(fr, c, tc) :
            fr \in {Some("stop"), Some("tool_calls")},
            c \in {None, Some(ShortText), Some(Rep("b", 3))},
            tc \in CompareToolCallLists}

CompareStreamClients ==
    {Raising("BadRequestError"),
     Stream(<<>>),
     Stream(<<Chunk(Some(<<"A", "B">>), Some("stop"))>>),
     Stream(<<Chunk(Some(<<"A">>), None), Chunk(Some(<<"B">>), Some("stop"))>>),
     Stream(<<Chunk(Some(<<"C", "D">>), Some("stop"))>>),
     Stream(<<Chunk(Some(<<"A">>), Some("stop"))>>),
     Stream(<<Chunk(Some(<<"A", "B">>), Some("length"))>>)}

CompareClients(scenario) ==
    {None} \cup {Some(c) : c \in IF StreamFlag(scenario, LocalModel)
                                 THEN CompareStreamClients ELSE CompareSyncClients}

CompareInit ==
    /\ MainIdle
    /\ shadow = None
    /\ AgentIdle
    /\ ex_scenario \in {Some(sc) : sc \in CompareScenarios}
    /\ ex_client \in CompareClients(Val(ex_scenario))
    /\ ref_client \in CompareClients(Val(ex_scenario))
    /\ ex_out = None
    /\ ref_out = None
    /\ ev_out = None
    /\ ev_exc = None
    /\ cmp_out = None

\* lines 685-689: the reference call of the scenario
RefRun ==
    /\ ref_out = None
    /\ ref_client # None
    /\ ex_scenario # None
    /\ ref_out' = Some(RunSingleRequest(Val(ref_client), Val(ex_scenario), OpenaiModel))
    /\ ex_scenario' = Some(ScenarioAfterCall(Val(ex_scenario), OpenaiModel))
    /\ UNCHANGED <<ex_client, ex_out, ev_out, ev_exc, ref_client, cmp_out>>
    /\ UNCHANGED <<main_vars, shadow, agent_vars>>

\* line 691: compare_summaries(local_result, openai_result)
CompareStep ==
    /\ cmp_out = None
    /\ ex_scenario # None
    /\ IsNone(ex_client) \/ (ex_out # None /\ Val(ex_out).type = "return")
    /\ IsNone(ref_client) \/ (ref_out # None /\ Val(ref_out).type = "return")
    /\ cmp_out' = Some(CompareSummaries(LocalResultOf(ex_client, ex_out),
                                        LocalResultOf(ref_client, ref_out)))
    /\ UNCHANGED <<ex_scenario, ex_client, ex_out, ev_out, ev_exc, ref_client, ref_out>>
    /\ UNCHANGED <<main_vars, shadow, agent_vars>>

(***************************************************************************)
(* One tool call through run_single_request: sanitize_arguments            *)
(***************************************************************************)
MaxItems == 2

\* the values of a mapping decoded from a JSON object
ArgumentValues ==
    {IntValue(1), IntValue(12), StrValue("x"),
     Dict(<<Item("a", IntValue(1)), Item("b", IntValue(2))>>),
     Dict(<<Item("b", IntValue(2)), Item("a", IntValue(1))>>)}

\* the mappings of up to MaxItems items, in every insertion order
ArgumentDicts ==
    {Dict(items) : items \in
        {its \in SeqsUpTo({Item(k, v) : k \in Range(KeyOrder), v \in ArgumentValues}, MaxItems) :
            \A i, j \in DOMAIN its : i # j => its[i].key # its[j].key}}

ArgumentTexts ==
    {Text(<<"{", "}">>), Text(<<"not json">>),
     Text(<<"{", "\"", "b", "\"", ": ", "1", ", ", "\"", "a", "\"", ": ", "2", "}">>)}

ArgumentChoices == ArgumentTexts \cup ArgumentDicts

SanitizeInit ==
    /\ MainIdle
    /\ shadow = None
    /\ AgentIdle
    /\ ex_scenario = Some(Scenario("s", [messages |-> "m"], FALSE, None))
    /\ ex_client \in {Some(Response(Some("tool_calls"), None,
                                    Some(<<ToolCallWith("c1", "echo", arguments)>>))) :
                         arguments \in ArgumentChoices}
    /\ ex_out = None
    /\ ev_out = None
    /\ CompareIdle

(***************************************************************************)
(* Two runs side by side: the reference backend varies, nothing else does  *)
(***************************************************************************)
ShadowReport(report) ==
    [local_result |-> report.local_result, expectation_passed |-> report.expectation_passed]

\* the names the paired runs select among
PairPool == {"basic_completion", "streaming", "invalid_schema"}

PairInit ==
    /\ MainInit
    /\ Val(args.only) \subseteq PairPool
    /\ args.exclude = {}
    /\ ~args.json_report
    /\ ExecIdle
    /\ AgentIdle
    /\ shadow \in {Some([skip_openai |-> skip, openai_result |-> None, reports |-> <<>>,
                         success |-> TRUE, passed |-> None, exit_code |-> None,
                         differs |-> FALSE]) :
                     skip \in {b \in BOOLEAN : (b \/ args.openai_api_key)
                                               <=> (args.skip_openai \/ args.openai_api_key)}}

PairStart ==
    /\ Start
    /\ shadow' = Some([Val(shadow) EXCEPT
                         !.exit_code = IF Len(SelectScenarios(args.only, args.exclude)) = 0
                                       THEN Some(0)
                                       ELSE IF ~Val(shadow).skip_openai /\ ~args.openai_api_key
                                       THEN Some(2) ELSE None,
                         !.differs = Val(shadow).skip_openai # args.skip_openai])

PairLocal == LocalCall /\ UNCHANGED shadow

PairOpenai ==
    /\ OpenaiCall
    /\ IF Val(shadow).skip_openai
       THEN shadow' = Some([Val(shadow) EXCEPT !.openai_result = None])
       ELSE \E client \in OpenaiClients(scenarios[idx], args.openai_model) :
               LET out == RunSingleRequest(client, scenarios[idx], args.openai_model) IN
               shadow' = Some([Val(shadow) EXCEPT
                                 !.openai_result = Some(out.value),
                                 !.differs = Val(shadow).differs
                                             \/ Some(out.value) # openai_result'])

PairReport ==
    /\ Report
    /\ LET report == BuildReport(scenarios[idx], local_result, Val(shadow).openai_result) IN
       shadow' = Some([Val(shadow) EXCEPT
                         !.openai_result = None,
                         !.reports = Append(@, ShadowReport(report)),
                         !.success = @ /\ PrintScenarioTable(report)])

PairFinish ==
    /\ Finish
    /\ shadow' = Some([Val(shadow) EXCEPT
                         !.passed = Some(CountPassed(Val(shadow).reports)),
                         !.exit_code = Some(IF Val(shadow).success THEN 0 ELSE 1)])

(***************************************************************************)
(* The tool-execution loops of the agent scripts                           *)
(* (test_multiturn_agent.py, test_coding_agent.py, interactive_agent.py)   *)
(***************************************************************************)
\* the number of requests one conversation may send
MaxTurns == 2

\* json.loads(arguments or "{}") over the argument strings a tool call
\* carries here: the decoded value, or the JSONDecodeError with the text
\* str(exc) gives
JsonLoads(raw) ==
    CASE raw \in {"", "{}"} -> Return(Dict(<<>>))
      [] raw = "{\"path\": \"calculator.py\"}"
            -> Return(Dict(<<Item("path", StrValue("calculator.py"))>>))
      [] raw = "{\"expression\": \"1+1\"}"
            -> Return(Dict(<<Item("expression", StrValue("1+1"))>>))
      [] raw = "{\"country\": \"Japan\"}"
            -> Return(Dict(<<Item("country", StrValue("Japan"))>>))
      [] raw = "[]" -> Return([t |-> "list", items |-> <<>>])
      [] raw = "[1]" -> Return([t |-> "list", items |-> <<IntValue(1)>>])
      [] raw = "1" -> Return(IntValue(1))
      [] raw = "null" -> Return([t |-> "NoneType"])
      [] raw = "{\"path\":"
            -> Raise(Exc("JSONDecodeError", "Expecting value: line 1 column 9 (char 8)"))

\* arguments.get(key): None when the mapping has no such key
ArgumentOf(arguments, key) ==
    IF \E i \in DOMAIN arguments.items : arguments.items[i].key = key
    THEN Some((CHOOSE item \in Range(arguments.items) : item.key = key).value)
    ELSE None

\* arguments.get on a decoded value that is no mapping
NoGet(arguments) ==
    Raise(Exc("AttributeError", "'" \o arguments.t \o "' object has no attribute 'get'"))

\* execute_tool of the multi-turn and interactive agents
ExecuteTool(name, arguments) ==
    IF name = "get_current_time" THEN Return("now")
    ELSE IF name = "calculate_expression"
    THEN IF arguments.t # "dict" THEN NoGet(arguments)
         ELSE CASE ArgumentOf(arguments, "expression") = None
                     -> Return("Error evaluating expression: Expression must contain only numbers and arithmetic operators")
                [] ArgumentOf(arguments, "expression") = Some(StrValue("1+1"))
                     -> Return("2")
    ELSE IF name = "lookup_country_capital"
    THEN IF arguments.t # "dict" THEN NoGet(arguments)
         ELSE CASE ArgumentOf(arguments, "country") = None -> Return("Unknown country: None")
                [] ArgumentOf(arguments, "country") = Some(StrValue("Japan")) -> Return("Tokyo")
    ELSE Return("Unsupported tool: " \o name)

\* tool_handlers.get(name) of the coding agent, then the handler's call on
\* a workspace that holds calculator.py
HandleTool(name, arguments) ==
    IF name \notin {"read_file", "apply_patch"}
    THEN Return("error: unsupported tool '" \o name \o "'")
    ELSE IF arguments.t # "dict" THEN NoGet(arguments)
    ELSE IF name = "read_file"
    THEN CASE ArgumentOf(arguments, "path") = None
                 -> Return("read_file error: 'path' must be a string")
            [] ArgumentOf(arguments, "path") = Some(StrValue("calculator.py"))
                 -> Return("content of calculator.py")
    ELSE CASE ArgumentOf(arguments, "diff") = None
                 -> Return("apply_patch error: 'path' and 'diff' must be strings")

\* the body of "for call in tool_calls" for one call: the outcome holds the
\* tool message appended, or the exception that leaves the loop
RunToolCall(script, call) ==
    LET decoded == JsonLoads(call.function.arguments)
        ToolMessage(result) ==
            IF script = "coding"
            THEN [role |-> "tool", tool_call_id |-> call.id, name |-> call.function.name,
                  content |-> result]
            ELSE [role |-> "tool", tool_call_id |-> call.id, content |-> result]
    IN  IF decoded.type = "raise"
        THEN IF script = "coding"
             THEN Return(ToolMessage("arguments JSON decode error: " \o decoded.exc.msg))
             ELSE decoded
        ELSE LET result == IF script = "coding"
                           THEN HandleTool(call.function.name, decoded.value)
                           ELSE ExecuteTool(call.function.name, decoded.value) IN
             IF result.type = "raise" THEN result
             ELSE Return(ToolMessage(result.value))

\* "for call in tool_calls": the history as the loop leaves it, and the
\* exception when a call raised
RECURSIVE RunToolCalls(_, _, _)
RunToolCalls(script, tool_calls, messages) ==
    IF tool_calls = <<>> THEN [type |-> "return", messages |-> messages]
    ELSE LET out == RunToolCall(script, Head(tool_calls)) IN
         IF out.type = "raise" THEN [type |-> "raise", messages |-> messages, exc |-> out.exc]
         ELSE RunToolCalls(script, Tail(tool_calls), Append(messages, out.value))

\* message.get("tool_calls"), read for truth: None and [] are no tool calls
ResponseToolCalls(response) ==
    IF response.tool_calls = None THEN <<>> ELSE Val(response.tool_calls)

\* one pass of the loop body after the response arrived
HandleResponse(script, response, messages) ==
    LET tool_calls == ResponseToolCalls(response)
        assistant == IF script = "coding"
                     THEN [role |-> "assistant", content |-> "", tool_calls |-> tool_calls]
                     ELSE [role |-> "assistant", tool_calls |-> tool_calls]
    IN  IF tool_calls # <<>>
        THEN LET out == RunToolCalls(script, tool_calls, Append(messages, assistant)) IN
             [pc |-> IF out.type = "raise" THEN "raised" ELSE "request",
              messages |-> out.messages]
        ELSE [pc |-> "done",
              messages |-> IF script = "interactive" /\ Strip(response.content) # <<>>
                           THEN Append(messages, [role |-> response.role,
                                                  content |-> response.content])
                           ELSE messages]

\* the calls a backend may ask for
AgentCallChoices(id) ==
    {[id |-> id, function |-> [name |-> call[1], arguments |-> call[2]]] :
        call \in {<<"get_current_time", "">>,
                  <<"calculate_expression", "{\"path\":">>,
                  <<"calculate_expression", "[1]">>,
                  <<"lookup_country_capital", "{\"country\": \"Japan\"}">>,
                  <<"read_file", "{\"path\": \"calculator.py\"}">>,
                  <<"read_file", "[1]">>,
                  <<"unknown_tool", "{\"path\": \"calculator.py\"}">>}}

\* the assistant messages a backend may answer with, holding one or two
\* tool calls or none; the streamed response of the interactive agent never
\* holds an empty list
AgentResponses(script) ==
    {[role |-> "assistant", content |-> <<>>, tool_calls |-> Some(<<c>>)] :
        c \in AgentCallChoices("call_a")}
        \cup {[role |-> "assistant", content |-> <<>>, tool_calls |-> Some(<<c, d>>)] :
                 c \in AgentCallChoices("call_b"), d \in AgentCallChoices("call_a")}
        \cup {[role |-> "assistant", content |-> content, tool_calls |-> None] :
                 content \in {<<"o", "k">>, <<" ">>}}
        \cup IF script = "interactive" THEN {}
             ELSE {[role |-> "assistant", content |-> <<"o", "k">>, tool_calls |-> Some(<<>>)]}

\* the multi-turn and coding agents start with the system prompt and the
\* user's request; the interactive agent with the system prompt, at its prompt
AgentInit ==
    /\ MainIdle
    /\ ExecIdle
    /\ shadow = None
    /\ ag_script \in {Some("multiturn"), Some("coding"), Some("interactive")}
    /\ ag_pc = IF ag_script = Some("interactive") THEN "prompt" ELSE "request"
    /\ ag_messages = IF ag_script = Some("interactive")
                     THEN <<[role |-> "system", content |-> "system prompt"]>>
                     ELSE <<[role |-> "system", content |-> "system prompt"],
                            [role |-> "user", content |-> "user request"]>>
    /\ ag_sent = <<>>
    /\ ag_received = <<>>

\* the prompt of the interactive agent, before the first request and after
\* every final answer: end of input and "exit" / "quit" leave the script, a
\* blank line prompts again, any other line is appended as the user's turn
AgentPrompt ==
    /\ ag_script = Some("interactive")
    /\ ag_pc \in {"prompt", "done"}
    /\ \E user_input \in {None, Some(<<" ", "E", "x", "i", "t", "\n">>), Some(<<"q", "u", "i", "t">>),
                          Some(<<" ">>), Some(<<"h", "i">>)} :
          LET upper == <<"A", "B", "C", "D", "E", "F", "G", "H", "I", "J", "K", "L", "M",
                         "N", "O", "P", "Q", "R", "S", "T", "U", "V", "W", "X", "Y", "Z">>
              lower == <<"a", "b", "c", "d", "e", "f", "g", "h", "i", "j", "k", "l", "m",
                         "n", "o", "p", "q", "r", "s", "t", "u", "v", "w", "x", "y", "z">>
              Lower(c) == IF \E i \in DOMAIN upper : upper[i] = c
                          THEN lower[CHOOSE i \in DOMAIN upper : upper[i] = c] ELSE c
              line == Strip(Val(user_input))
              lowered == [i \in DOMAIN line |-> Lower(line[i])]
          IN  IF user_input = None \/ lowered \in {<<"e", "x", "i", "t">>, <<"q", "u", "i", "t">>}
              THEN ag_pc' = "exit" /\ ag_messages' = ag_messages
              ELSE IF line = <<>>
              THEN ag_pc' = "prompt" /\ ag_messages' = ag_messages
              ELSE /\ ag_pc' = "request"
                   /\ ag_messages' = Append(ag_messages, [role |-> "user",
                                                          content |-> Val(user_input)])
    /\ UNCHANGED <<ag_script, ag_sent, ag_received>>
    /\ UNCHANGED <<main_vars, exec_vars, shadow>>

\* client.chat.completions.create(messages=messages, ...) and its response
AgentRequest ==
    /\ ag_pc = "request"
    /\ Len(ag_sent) < MaxTurns
    /\ \E response \in AgentResponses(Val(ag_script)) :
          /\ ag_sent' = Append(ag_sent, ag_messages)
          /\ ag_received' = Append(ag_received, response)
    /\ ag_pc' = "respond"
    /\ UNCHANGED <<ag_script, ag_messages>>
    /\ UNCHANGED <<main_vars, exec_vars, shadow>>

\* the rest of the loop body: the tool calls are executed and the loop
\* continues, or the loop breaks
AgentRespond ==
    /\ ag_pc = "respond"
    /\ LET out == HandleResponse(Val(ag_script), ag_received[Len(ag_received)], ag_messages) IN
          /\ ag_pc' = out.pc
          /\ ag_messages' = out.messages
    /\ UNCHANGED <<ag_script, ag_sent, ag_received>>
    /\ UNCHANGED <<main_vars, exec_vars, shadow>>

(***************************************************************************)
(* Specifications                                                          *)
(***************************************************************************)
Init == MainInit /\ ExecIdle /\ shadow = None /\ AgentIdle

Next ==
    \/ Start /\ UNCHANGED <<exec_vars, shadow, agent_vars>>
    \/ LocalCall /\ UNCHANGED <<exec_vars, shadow, agent_vars>>
    \/ OpenaiCall /\ UNCHANGED <<exec_vars, shadow, agent_vars>>
    \/ Report /\ UNCHANGED <<exec_vars, shadow, agent_vars>>
    \/ Finish /\ UNCHANGED <<exec_vars, shadow, agent_vars>>

Spec == Init /\ [][Next]_vars

ExecNext == ExecRun

SpecExec == ExecInit /\ [][ExecNext]_vars

EvalNext == ExecRun \/ EvalStep

SpecEval == EvalInit /\ [][EvalNext]_vars

SanitizeNext == ExecRun

SpecSanitize == SanitizeInit /\ [][SanitizeNext]_vars

CompareNext == ExecRun \/ RefRun \/ CompareStep

SpecCompare == CompareInit /\ [][CompareNext]_vars

PairNext ==
    \/ PairStart /\ UNCHANGED <<exec_vars, agent_vars>>
    \/ PairLocal /\ UNCHANGED <<exec_vars, agent_vars>>
    \/ PairOpenai /\ UNCHANGED <<exec_vars, agent_vars>>
    \/ PairReport /\ UNCHANGED <<exec_vars, agent_vars>>
    \/ PairFinish /\ UNCHANGED <<exec_vars, agent_vars>>

SpecPair == PairInit /\ [][PairNext]_vars

SpecAgent == AgentInit /\ [][AgentPrompt \/ AgentRequest \/ AgentRespond]_vars

(***************************************************************************)
(* Properties of the Request Executor (checked under SpecExec)             *)
(***************************************************************************)
ExScenario == Val(ex_scenario)

ExClient == Val(ex_client)

ExOutcome == Val(ex_out)

ExRan == ex_out # None

ExStreaming == StreamFlag(ExScenario, LocalModel)

\* the backend raised when create was called
ExRaisedAtCall(cls) == ExClient.kind = "raise" /\ ExClient.exc.cls = cls

\* the stream was opened and every event of it was consumed without an exception
ExDrained ==
    /\ ExStreaming
    /\ ExClient.kind = "stream"
    /\ \A i \in 1..Len(ExClient.items) :
          ExClient.items[i].type = "chunk" /\ Len(ExClient.items[i].choices) > 0

ExFinishAt(i) == ExClient.items[i].choices[1].finish_reason

ExDeltaAt(i) == ExClient.items[i].choices[1].delta.content

\* the positions of the events that carry a non-empty finish reason
ExFinishPositions == {i \in 1..Len(ExClient.items) : TruthyAtom(ExFinishAt(i))}

Maximum(S) == CHOOSE x \in S : \A y \in S : y <= x

\* the last non-empty finish reason seen, None when no event carried one
ExLastFinish ==
    IF ExFinishPositions = {} THEN None ELSE ExFinishAt(Maximum(ExFinishPositions))

\* the positions of the events that carry a non-empty text delta
ExTextPositions == {i \in 1..Len(ExClient.items) : Truthy(ExDeltaAt(i))}

\* the deltas of the events from position i on, concatenated in arrival order
RECURSIVE ExConcatFrom(_)
ExConcatFrom(i) ==
    IF i > Len(ExClient.items) THEN <<>>
    ELSE (IF i \in ExTextPositions THEN Val(ExDeltaAt(i)) ELSE <<>>) \o ExConcatFrom(i + 1)

\* the length of a text once the whitespace around it is removed
TrimmedLen(text) ==
    LET inked == {i \in 1..Len(text) : text[i] \notin Whitespace}
    IN  IF inked = {} THEN 0
        ELSE Maximum(inked) - (CHOOSE x \in inked : \A y \in inked : x <= y) + 1

\* C1: run_single_request never propagates an exception: whatever the scenario
\* and however the backend fails (at call time or in the middle of the stream),
\* the outcome is a returned ScenarioResult.
C1_NeverPropagates ==
    ExRan => /\ ExOutcome.type = "return"
             /\ DOMAIN ExOutcome.value = {"ok", "summary", "error"}

C1_Witness ==
    /\ ExRan
    /\ ExStreaming
    /\ ExClient.kind = "stream"
    /\ Len(ExClient.items) = 2
    /\ ExClient.items[1].type = "chunk"
    /\ ExClient.items[2].type = "raise"
    /\ ExOutcome.type = "return"
    /\ ~ExOutcome.value.ok
    /\ ExOutcome.value.error = Some(<<"m1">>)

\* C2: on the synchronous path a validation-class rejection gives a result whose
\* ok equals scenario.expect_failure, whose error is the rejection message and
\* whose summary is empty.
C2_RejectionFollowsExpectFailure ==
    (ExRan /\ ~ExStreaming /\ ExRaisedAtCall("BadRequestError"))
        => /\ ExOutcome.type = "return"
           /\ ExOutcome.value.ok = ExScenario.expect_failure
           /\ ExOutcome.value.error = Some(ExClient.exc.msg)
           /\ DOMAIN ExOutcome.value.summary = {}

C2_Witness ==
    /\ ExRan
    /\ ~ExStreaming
    /\ ExRaisedAtCall("BadRequestError")
    /\ ExScenario.expect_failure
    /\ ExOutcome.value.ok
    /\ ExOutcome.value.error = Some(<<"m1">>)

HasApiErrorPrefix(error) ==
    /\ Len(error) >= Len(ApiErrorPrefix)
    /\ SubSeq(error, 1, Len(ApiErrorPrefix)) = ApiErrorPrefix

\* C3: on the synchronous path a server-class error gives ok=false, also when
\* expect_failure is set, with the error "APIError: " followed by the message;
\* a failure of any other class, a validation rejection among them, is reported
\* without that prefix.
C3_ServerErrorClassified ==
    (ExRan /\ ~ExStreaming /\ ExClient.kind = "raise")
        => /\ ExOutcome.type = "return"
           /\ ExRaisedAtCall("APIError")
                 => /\ ~ExOutcome.value.ok
                    /\ ExOutcome.value.error = Some(ApiErrorPrefix \o ExClient.exc.msg)
           /\ HasApiErrorPrefix(Val(ExOutcome.value.error)) <=> ExRaisedAtCall("APIError")

C3_Witness ==
    /\ ExRan
    /\ ~ExStreaming
    /\ ExRaisedAtCall("APIError")
    /\ ExScenario.expect_failure
    /\ ~ExOutcome.value.ok
    /\ ExOutcome.value.error = Some(<<"APIError: ", "m1">>)

\* C4: when the stream is consumed to the end without an exception, ok is true
\* exactly when the last non-empty finish reason seen is "stop"; any other
\* reason, and no reason at all, gives ok=false, whatever the scenario expects.
C4_StreamOkIffStop ==
    (ExRan /\ ExDrained)
        => /\ ExOutcome.type = "return"
           /\ ExOutcome.value.ok <=> (ExLastFinish = Some("stop"))
           /\ ExOutcome.value.error = None

C4_Witness ==
    /\ ExRan
    /\ ExDrained
    /\ Len(ExClient.items) = 2
    /\ ExFinishAt(1) = Some("stop")
    /\ ExFinishAt(2) = None
    /\ ExScenario.expectations # None
    /\ ExOutcome.value.ok

\* C5: the streamed summary reports chunk_count as the number of events with a
\* non-empty text delta, content_length as the length of the deltas concatenated
\* in arrival order and trimmed, and finish_reason as the last non-empty one
\* seen; events [A, B+stop] give content_length=2, chunk_count=2, "stop".
C5_StreamSummary ==
    (ExRan /\ ExDrained)
        => /\ ExOutcome.type = "return"
           /\ ExOutcome.value.summary.chunk_count = Some(Cardinality(ExTextPositions))
           /\ ExOutcome.value.summary.content_length = Some(TrimmedLen(ExConcatFrom(1)))
           /\ ExOutcome.value.summary.finish_reason = ExLastFinish
           /\ ExClient.items = <<Chunk(Some(<<"A">>), None), Chunk(Some(<<"B">>), Some("stop"))>>
                 => /\ ExOutcome.value.summary.content_length = Some(2)
                    /\ ExOutcome.value.summary.chunk_count = Some(2)
                    /\ ExOutcome.value.summary.finish_reason = Some("stop")

C5_Witness ==
    /\ ExRan
    /\ ExDrained
    /\ ExClient.items = <<Chunk(Some(<<"A">>), None), Chunk(Some(<<"B">>), Some("stop"))>>
    /\ ExOutcome.value.summary.content_length = Some(2)
    /\ ExOutcome.value.summary.chunk_count = Some(2)

(***************************************************************************)
(* Properties of a run of main (checked under Spec and SpecPair)           *)
(***************************************************************************)
\* the local pass criterion of a report
LocalPass(report) ==
    /\ report.local_result = None \/ Val(report.local_result).ok
    /\ report.expectation_passed

\* the reaction of the local backend to the call made for a scenario, if any
LocalReactions(name) ==
    {calls[i].reaction : i \in {j \in 1..Len(calls) :
                                  calls[j].backend = "local" /\ calls[j].scenario = name}}

\* C6: the exit status is zero exactly when every selected scenario has been
\* reported and satisfies the local pass criterion (local result absent or ok,
\* and expectations passed); a run whose filters select nothing exits with zero
\* without calling a backend.
C6_ExitZeroIffAllPass ==
    pc = "done"
        => /\ exit_code = Some(0)
                 <=> \A i \in 1..Len(scenarios) :
                        i <= Len(reports) /\ LocalPass(reports[i])
           /\ Len(scenarios) = 0 => (exit_code = Some(0) /\ calls = <<>>)

C6_Witness ==
    /\ pc = "done"
    /\ Len(reports) = 2
    /\ LocalPass(reports[1])
    /\ ~LocalPass(reports[2])
    /\ exit_code = Some(1)

\* C7: of two runs over the same scenarios with the same local reactions, which
\* differ in what the reference backend does or in whether it is skipped, every
\* scenario gets the same expectation_passed, and the pass count and the exit
\* status are the same.
C7_ReferenceNeverAffectsPassFail ==
    shadow # None
        => /\ Len(Val(shadow).reports) = Len(reports)
           /\ \A i \in 1..Len(reports) :
                 Val(shadow).reports[i].expectation_passed = reports[i].expectation_passed
           /\ Val(shadow).success = success
           /\ pc = "done" => /\ Val(shadow).passed = output.passed
                             /\ Val(shadow).exit_code = exit_code

C7_Witness ==
    /\ shadow # None
    /\ pc = "done"
    /\ Val(shadow).differs
    /\ Len(reports) = 2
    /\ reports[1].openai_result # None
    /\ ~Val(reports[1].openai_result).ok
    /\ exit_code = Some(0)
    /\ Val(shadow).exit_code = Some(0)

\* C8: when the backend rejects the request of invalid_schema with a validation
\* error, the local result is ScenarioResult(ok=true, summary={}, error=message),
\* the scenario counts as passed and the accumulated success is what the other
\* scenarios alone make it.
C8_InvalidSchemaRejectionPasses ==
    \A i \in 1..Len(reports) :
        (reports[i].scenario.name = "invalid_schema"
         /\ LocalReactions("invalid_schema") = {"BadRequestError"})
            => /\ reports[i].local_result = Some(ScenarioResult(TRUE, EmptyDict, Some(<<"m1">>)))
               /\ reports[i].expectation_passed
               /\ LocalPass(reports[i])
               /\ success = \A j \in (1..Len(reports)) \ {i} : LocalPass(reports[j])

C8_Witness ==
    /\ pc = "done"
    /\ Len(reports) = 2
    /\ reports[2].scenario.name = "invalid_schema"
    /\ LocalReactions("invalid_schema") = {"BadRequestError"}
    /\ Val(reports[2].local_result).error # None
    /\ output.passed = Some(2)
    /\ exit_code = Some(0)

\* C9: a scenario with expect_failure=true whose request was sent to the local
\* backend counts as passed only when the local backend rejected the request;
\* if the backend accepts it and returns a completion, the scenario is not passed.
C9_ExpectFailurePassesOnlyOnRejection ==
    \A i \in 1..Len(reports) :
        (reports[i].scenario.expect_failure
         /\ reports[i].local_result # None
         /\ LocalPass(reports[i]))
            => LocalReactions(reports[i].scenario.name) = {"BadRequestError"}

(***************************************************************************)
(* Properties of the Expectation Evaluator (checked under SpecEval)        *)
(***************************************************************************)
EvResult == LocalResultOf(ex_client, ex_out)

\* C10: for a scenario with expect_failure=true, with or without declared
\* expectations, a local result with error set and ok=true never evaluates to
\* expectation_passed=false.
C10_ExpectedFailureSkipsExpectations ==
    (ev_out # None
     /\ ExScenario.expect_failure
     /\ EvResult # None
     /\ Val(EvResult).ok
     /\ Val(EvResult).error # None)
        => Val(ev_out).passed

EvDeclared == ExScenario.expectations # None

EvExpectations == Val(ExScenario.expectations)

EvEvaluated == ev_out # None

EvPassed == Val(ev_out).passed

EvFeedback == Val(ev_out).feedback

\* the result is present, did not fail and has a summary: the field checks run
EvReachesChecks ==
    /\ EvResult # None
    /\ ~(Val(EvResult).error # None /\ Val(Val(EvResult).error) # <<>> /\ ~Val(EvResult).ok)
    /\ DOMAIN Val(EvResult).summary # {}

EvSummary == Val(EvResult).summary

\* the tool calls of the summary, [] when the summary has none
EvToolCalls ==
    IF "tool_calls" \in DOMAIN EvSummary /\ EvSummary.tool_calls # None
    THEN Val(EvSummary.tool_calls) ELSE <<>>

EvToolNames == {EvToolCalls[i].function.name : i \in DOMAIN EvToolCalls}

\* the required tools that are not among the summary's tool calls
EvMissing ==
    IF EvExpectations.requires_tools = None THEN {}
    ELSE Val(EvExpectations.requires_tools) \ EvToolNames

\* the tokens appear next to one another in the message
Mentions(message, tokens) ==
    \E i \in 1..(Len(message) - Len(tokens) + 1) :
        SubSeq(message, i, i + Len(tokens) - 1) = tokens

\* C11: every expectation field is checked on its own: when requires_tools is
\* set and a required tool is not among the result's tool calls, the evaluation
\* fails and its feedback names the missing tools, whether or not
\* tool_call_count is set as well.
C11_RequiredToolsCheckedIndependently ==
    (EvEvaluated /\ EvDeclared /\ EvReachesChecks /\ EvMissing # {})
        => /\ ~EvPassed
           /\ EvFeedback # None
           /\ Mentions(Val(EvFeedback), <<"missing tool calls for: [">>)
           /\ \A tool \in EvMissing : Mentions(Val(EvFeedback), <<"'", tool, "'">>)

\* C12: an expectations object whose four fields are all absent passes for
\* every result, exactly as an undeclared expectations value does.
C12_AllAbsentPasses ==
    (EvEvaluated /\ EvDeclared
     /\ EvExpectations = ScenarioExpectations(None, None, None, None))
        => ev_out = Some(EvaluateExpectations(EvResult, None))

\* C13: a scenario that declares no expectations evaluates to passed with no
\* feedback for every result: absent, failed with an error, with an empty
\* summary, or successful.
C13_NoExpectationsPasses ==
    (EvEvaluated /\ ~EvDeclared) => (EvPassed /\ EvFeedback = None)

C13_Witness ==
    /\ EvEvaluated
    /\ ~EvDeclared
    /\ EvResult # None
    /\ ~Val(EvResult).ok
    /\ Val(EvResult).error # None
    /\ DOMAIN Val(EvResult).summary = {}
    /\ EvPassed

\* the reports of the scenarios that declare expectations
DeclaringReports == {i \in 1..Len(reports) : reports[i].scenario.expectations # None}

\* C14: with expectations declared and the local result absent because the
\* local backend was skipped, the evaluation is passed=false with the 'skipped'
\* feedback, so a run that skips the local backend counts no scenario that
\* declares expectations as passed.
C14_SkippedLocalFailsExpectations ==
    /\ \A i \in DeclaringReports :
          reports[i].local_result = None
              => /\ ~reports[i].expectation_passed
                 /\ reports[i].expectation_feedback
                        = Some(<<"scenario skipped; expectations not evaluated">>)
                 /\ ~PrintScenarioTable(reports[i])
    /\ (args.skip_local /\ output.passed # None)
          => /\ \A i \in 1..Len(reports) : reports[i].local_result = None
             /\ Val(output.passed) = Len(reports) - Cardinality(DeclaringReports)
             /\ (DeclaringReports # {} => exit_code = Some(1))

C14_Witness ==
    /\ pc = "done"
    /\ args.skip_local
    /\ Len(reports) = 2
    /\ Cardinality(DeclaringReports) = 1
    /\ output.passed = Some(1)
    /\ exit_code = Some(1)

\* the length the claim calls actual: content_length when the summary has one,
\* the length of content_preview otherwise
EvActualLength ==
    IF "content_length" \in DOMAIN EvSummary /\ EvSummary.content_length # None
    THEN Val(EvSummary.content_length)
    ELSE Len(Val(EvSummary.content_preview))

EvTooShort ==
    EvFeedback # None /\ Mentions(Val(EvFeedback), <<"content too short (expected >=">>)

\* C15: with min_content_length set and a result that reaches the field checks,
\* the length check passes exactly when the actual length (content_length when
\* present, the length of content_preview otherwise) is at least the bound; a
\* failure reports the bound and the actual length.
C15_MinContentLengthInclusive ==
    (EvEvaluated /\ EvDeclared /\ EvReachesChecks
     /\ EvExpectations.min_content_length # None)
        => LET bound == Val(EvExpectations.min_content_length) IN
           /\ (EvActualLength >= bound) <=> ~EvTooShort
           /\ (EvActualLength < bound)
                 => /\ ~EvPassed
                    /\ Mentions(Val(EvFeedback),
                                <<"content too short (expected >=">> \o ToStr(bound)
                                \o <<", got ">> \o ToStr(EvActualLength) \o <<")">>)
           /\ EvExpectations = ScenarioExpectations(None, None, None, Some(bound))
                 => (EvPassed <=> EvActualLength >= bound)

C15_Witness ==
    /\ EvEvaluated
    /\ EvDeclared
    /\ EvReachesChecks
    /\ EvExpectations = ScenarioExpectations(None, None, None, Some(5))
    /\ EvActualLength = 5
    /\ EvPassed

EvActualFinishReason ==
    IF "finish_reason" \in DOMAIN EvSummary THEN EvSummary.finish_reason ELSE None

\* the declared fields the result does not satisfy
EvFailedChecks ==
    (IF EvExpectations.finish_reason # None
        /\ EvActualFinishReason # EvExpectations.finish_reason
     THEN {"finish_reason"} ELSE {})
    \cup (IF EvExpectations.tool_call_count # None
             /\ Len(EvToolCalls) # Val(EvExpectations.tool_call_count)
          THEN {"tool_call_count"} ELSE {})
    \cup (IF EvMissing # {} THEN {"requires_tools"} ELSE {})
    \cup (IF EvExpectations.min_content_length # None
             /\ EvActualLength < Val(EvExpectations.min_content_length)
          THEN {"min_content_length"} ELSE {})

\* how the message of a failed check begins
CheckMessage(check) ==
    CASE check = "finish_reason" -> <<"finish_reason expected ">>
      [] check = "tool_call_count" -> <<"tool_call_count expected ">>
      [] check = "requires_tools" -> <<"missing tool calls for: [">>
      [] check = "min_content_length" -> <<"content too short (expected >=">>

\* the number of messages joined in a feedback
MessageCount(feedback) ==
    1 + Cardinality({i \in DOMAIN feedback : feedback[i] = "; "})

\* the expectations of the tool_call scenario
ToolCallExpectations == ScenarioExpectations(Some("tool_calls"), Some(1), Some({"echo"}), None)

\* C16: every declared field is checked and every failed check is reported:
\* the evaluation is passed exactly when no check fails, and the feedback is the
\* "; "-joined list of one message per failed check; with the tool_call
\* scenario's expectations a summary without tool calls fails with
\* 'tool_call_count expected 1 got 0' and the missing tool 'echo'.
C16_EveryFailedCheckReported ==
    (EvEvaluated /\ EvDeclared /\ EvReachesChecks)
        => /\ EvPassed <=> (EvFailedChecks = {})
           /\ (EvFailedChecks = {}) <=> (EvFeedback = None)
           /\ EvFailedChecks # {}
                 => /\ MessageCount(Val(EvFeedback)) = Cardinality(EvFailedChecks)
                    /\ \A check \in EvFailedChecks :
                          Mentions(Val(EvFeedback), CheckMessage(check))
           /\ (EvExpectations = ToolCallExpectations /\ EvToolCalls = <<>>)
                 => /\ ~EvPassed
                    /\ Mentions(Val(EvFeedback),
                                <<"tool_call_count expected ", "1", " got ", "0">>)
                    /\ Mentions(Val(EvFeedback), <<"'", "echo", "'">>)

\* C17: evaluate_expectations is total: for every result run_single_request
\* produces, or an absent result, with every expectations value, it returns a
\* boolean with an optional feedback and raises nothing.
C17_EvaluateIsTotal ==
    /\ ev_exc = None
    /\ EvEvaluated
          => /\ EvPassed \in BOOLEAN
             /\ EvFeedback # None => Len(Val(EvFeedback)) > 0
             /\ EvPassed => EvFeedback = None

C17_Witness ==
    /\ EvEvaluated
    /\ EvDeclared
    /\ EvReachesChecks
    /\ EvExpectations.tool_call_count # None
    /\ EvExpectations.requires_tools = Some({"echo", "zeta"})
    /\ EvExpectations.min_content_length # None
    /\ Len(EvToolCalls) = 2
    /\ "content_length" \notin DOMAIN EvSummary
    /\ EvSummary.has_content = Some(FALSE)
    /\ ~EvPassed

(***************************************************************************)
(* Properties of the Comparator (checked under SpecCompare)                *)
(***************************************************************************)
CmpLocal == LocalResultOf(ex_client, ex_out)

CmpOpenai == LocalResultOf(ref_client, ref_out)

CmpCompared == cmp_out # None

CmpDiff == Val(cmp_out)

\* a side with nothing to compare: no result, or a result with an empty summary
CmpNothing(result) == result = None \/ DOMAIN Val(result).summary = {}

\* C18: compare_summaries returns None whenever either backend's result is
\* absent or either result's summary is empty, whatever the other side holds.
C18_NothingToCompare ==
    (CmpCompared /\ (CmpNothing(CmpLocal) \/ CmpNothing(CmpOpenai))) => CmpDiff = None

C18_Witness ==
    /\ CmpCompared
    /\ ~CmpNothing(CmpLocal)
    /\ Val(CmpLocal).summary.finish_reason = Some("tool_calls")
    /\ CmpOpenai # None
    /\ Val(CmpOpenai).ok
    /\ Val(CmpOpenai).error # None
    /\ DOMAIN Val(CmpOpenai).summary = {}
    /\ CmpDiff = None

\* the value of a summary's field, None when the summary has no such field
Field(summary, key) == IF key \in DOMAIN summary THEN summary[key] ELSE None

\* the names of a summary's tool calls, in order
CallNames(summary) ==
    IF Field(summary, "tool_calls") = None THEN <<>>
    ELSE [i \in DOMAIN Val(summary.tool_calls) |-> Val(summary.tool_calls)[i].function.name]

\* what compare_summaries tracks of a summary
Tracked(summary) ==
    <<Field(summary, "finish_reason"), Field(summary, "role"), CallNames(summary),
      Field(summary, "content_length")>>

\* C19: compare_summaries never returns an empty mapping: it returns None when
\* no tracked field (finish_reason, role, tool-call names in order, content
\* length) differs, so also when the summaries differ only in the wording of
\* the content, the arguments of the tool calls or the number of chunks.
C19_NoEmptyMapping ==
    CmpCompared
        => /\ CmpDiff # None => DOMAIN Val(CmpDiff) # {}
           /\ (~CmpNothing(CmpLocal) /\ ~CmpNothing(CmpOpenai)
               /\ Tracked(Val(CmpLocal).summary) = Tracked(Val(CmpOpenai).summary))
                 => CmpDiff = None

C19_Witness ==
    /\ CmpCompared
    /\ ~CmpNothing(CmpLocal)
    /\ ~CmpNothing(CmpOpenai)
    /\ Field(Val(CmpLocal).summary, "tool_calls") # None
    /\ Val(CmpLocal).summary.tool_calls # Val(CmpOpenai).summary.tool_calls
    /\ Val(CmpLocal).summary.content_preview # Val(CmpOpenai).summary.content_preview
    /\ CmpDiff = None

\* C20: compare_summaries is symmetric in emptiness: for results A and B,
\* compare(A, B) is None exactly when compare(B, A) is None.
C20_SymmetricInEmptiness ==
    CmpCompared => ((CmpDiff = None) <=> (CompareSummaries(CmpOpenai, CmpLocal) = None))

C20_Witness ==
    /\ CmpCompared
    /\ CmpDiff # None
    /\ DOMAIN Val(CmpDiff) = {"content_length"}
    /\ CompareSummaries(CmpOpenai, CmpLocal) # None
    /\ CompareSummaries(CmpOpenai, CmpLocal) # CmpDiff

\* both sides have a summary, so the fields are compared
CmpBothSummaries == CmpCompared /\ ~CmpNothing(CmpLocal) /\ ~CmpNothing(CmpOpenai)

CmpL == Val(CmpLocal).summary

CmpO == Val(CmpOpenai).summary

\* the keys of the diff, none for None
CmpDiffKeys == IF CmpDiff = None THEN {} ELSE DOMAIN Val(CmpDiff)

\* the names of a sequence of calls with their multiplicities
NameCounts(names) ==
    [n \in {names[i] : i \in DOMAIN names} |-> Cardinality({i \in DOMAIN names : names[i] = n})]

\* C21: compare_summaries compares tool calls as ordered sequences of names:
\* the same names in another order give a tool_calls entry, the same sequence
\* of names gives none even when ids or arguments differ, and a summary
\* without tool calls counts as the empty sequence.
C21_ToolCallsComparedInOrder ==
    CmpBothSummaries
        => /\ ("tool_calls" \in CmpDiffKeys) <=> (CallNames(CmpL) # CallNames(CmpO))
           /\ "tool_calls" \in CmpDiffKeys
                 => Val(CmpDiff).tool_calls
                        = [local |-> CallNames(CmpL), openai |-> CallNames(CmpO)]

C21_Witness ==
    /\ CmpBothSummaries
    /\ CallNames(CmpL) # CallNames(CmpO)
    /\ NameCounts(CallNames(CmpL)) = NameCounts(CallNames(CmpO))
    /\ CmpDiffKeys = {"tool_calls"}

\* the tracked fields whose values differ between the two summaries
TrackedDiffering ==
    {key \in {"finish_reason", "role", "content_length"} :
        Field(CmpL, key) # Field(CmpO, key)}
    \cup (IF CallNames(CmpL) # CallNames(CmpO) THEN {"tool_calls"} ELSE {})

\* C22: the diff mapping holds exactly the tracked fields that differ, each with
\* the local and the reference value: finish_reason and role by equality,
\* content_length only when a summary reports it and the values are unequal.
C22_DiffHoldsExactlyDiffering ==
    CmpBothSummaries
        => /\ CmpDiffKeys = TrackedDiffering
           /\ \A key \in CmpDiffKeys \ {"tool_calls"} :
                 Val(CmpDiff)[key] = [local |-> Field(CmpL, key), openai |-> Field(CmpO, key)]

C22_Witness ==
    /\ CmpBothSummaries
    /\ CmpDiffKeys = {"finish_reason", "content_length"}
    /\ Val(CmpDiff).content_length = [local |-> Some(1), openai |-> Some(2)]
    /\ Val(CmpDiff).finish_reason = [local |-> Some("stop"), openai |-> Some("length")]

\* the fields the claim gives every summary
SharedFields ==
    {"finish_reason", "role", "has_content", "content_preview", "content_length", "tool_calls"}

\* C23: the summary has the same shape whether the response was streamed or
\* not: both paths give finish_reason, role, has_content, content_preview,
\* content_length and tool_calls (None, never an empty list, when there are no
\* tool calls), and the streamed path adds chunk_count and nothing else.
C23_SummarySameShape ==
    (ExRan /\ ExOutcome.type = "return" /\ DOMAIN ExOutcome.value.summary # {})
        => LET summary == ExOutcome.value.summary IN
           /\ SharedFields \subseteq DOMAIN summary
           /\ (DOMAIN summary \ SharedFields)
                 \subseteq (IF ExStreaming THEN {"chunk_count"} ELSE {})
           /\ summary.tool_calls # Some(<<>>)

(***************************************************************************)
(* Properties of the run (checked under Spec)                              *)
(***************************************************************************)
\* the run went through its scenarios and printed its summary
RunFinished == pc = "done" /\ output.total # None

\* the names of the registry, in registry order
RegistryNames == [i \in DOMAIN BuildScenarios |-> BuildScenarios[i].name]

\* the position of a scenario in the registry
RegistryIndex(name) == CHOOSE i \in DOMAIN RegistryNames : RegistryNames[i] = name

\* the names the arguments select
SelectedNames ==
    {n \in Range(RegistryNames) :
        /\ (IsNone(args.only) \/ Val(args.only) = {} \/ n \in Val(args.only))
        /\ n \notin args.exclude}

\* C24: a run produces exactly one ScenarioReport per selected scenario, in
\* registry order, each with a result for every configured backend and None
\* for every skipped backend; --only basic_completion invalid_schema with both
\* backends gives 2 reports with both results present, also when a call failed.
C24_OneReportPerScenario ==
    /\ \A i \in 1..Len(reports) :
          /\ reports[i].scenario = scenarios[i]
          /\ (reports[i].local_result = None) <=> args.skip_local
          /\ (reports[i].openai_result = None) <=> args.skip_openai
    /\ RunFinished
          => /\ {reports[i].scenario.name : i \in 1..Len(reports)} = SelectedNames
             /\ Len(reports) = Cardinality(SelectedNames)
             /\ \A i, j \in 1..Len(reports) :
                   i < j => RegistryIndex(reports[i].scenario.name)
                            < RegistryIndex(reports[j].scenario.name)
             /\ (args.only = Some({"basic_completion", "invalid_schema"})
                 /\ args.exclude = {} /\ ~args.skip_local /\ ~args.skip_openai)
                   => /\ Len(reports) = 2
                      /\ \A i \in 1..2 : /\ reports[i].local_result # None
                                         /\ reports[i].openai_result # None

C24_Witness ==
    /\ RunFinished
    /\ args.only = Some({"basic_completion", "invalid_schema"})
    /\ ~args.skip_local
    /\ ~args.skip_openai
    /\ Len(reports) = 2
    /\ reports[1].scenario.name = "basic_completion"
    /\ reports[2].scenario.name = "invalid_schema"
    /\ ~Val(reports[1].local_result).ok
    /\ ~Val(reports[2].openai_result).ok

\* the position in the run of the scenario a call was made for
CallScenario(call) == CHOOSE i \in DOMAIN scenarios : scenarios[i].name = call.scenario

\* the place of a call in the order local, reference, scenario by scenario
CallPosition(call) == 2 * CallScenario(call) + (IF call.backend = "openai" THEN 1 ELSE 0)

\* a call of that backend for the scenario at position i has been made
Called(backend, i) ==
    \E j \in DOMAIN calls : calls[j].backend = backend /\ CallScenario(calls[j]) = i

\* C25: scenarios run strictly one after another: the local call of a scenario
\* has completed before its reference call begins, and both calls have
\* completed and the report has been appended before a call of the next
\* scenario begins.
C25_StrictlySequential ==
    /\ \A i, j \in DOMAIN calls : i < j => CallPosition(calls[i]) < CallPosition(calls[j])
    /\ \A j \in DOMAIN calls : CallScenario(calls[j]) <= Len(reports) + 1
    /\ \A i \in 1..Len(reports) :
          /\ args.skip_local \/ Called("local", i)
          /\ args.skip_openai \/ Called("openai", i)
    /\ pc \in {"local", "openai", "report"} => Len(reports) = idx - 1
    /\ pc = "local" => ~Called("local", idx) /\ ~Called("openai", idx)
    /\ pc = "openai"
          => /\ ~Called("openai", idx)
             /\ args.skip_local \/ (Called("local", idx) /\ local_result # None)
    /\ pc = "report"
          => /\ args.skip_local \/ (Called("local", idx) /\ local_result # None)
             /\ args.skip_openai \/ (Called("openai", idx) /\ openai_result # None)

C25_Witness ==
    /\ pc = "openai"
    /\ idx = 2
    /\ Len(reports) = 1
    /\ Len(calls) = 3
    /\ calls[3].backend = "local"
    /\ calls[3].scenario = "streaming"
    /\ calls[3].reaction = "stream"
    /\ local_result # None
    /\ Field(Val(local_result).summary, "chunk_count") = Some(2)

(***************************************************************************)
(* Properties of sanitize_arguments (checked under SpecSanitize)           *)
(***************************************************************************)
\* the arguments the backend sent with its tool call
SanGiven == Val(ExClient.response.choices[1].message.tool_calls)[1].function.arguments

\* the arguments in the summary
SanOut == Val(ExOutcome.value.summary.tool_calls)[1].function.arguments

\* equality of two values as Python has it: a dict's key order does not count
RECURSIVE SameValue(_, _)
SameValue(v, w) ==
    IF v.t # w.t THEN FALSE
    ELSE IF v.t # "dict" THEN v = w
    ELSE /\ {v.items[i].key : i \in DOMAIN v.items} = {w.items[j].key : j \in DOMAIN w.items}
         /\ \A i \in DOMAIN v.items : \A j \in DOMAIN w.items :
               v.items[i].key = w.items[j].key => SameValue(v.items[i].value, w.items[j].value)

\* C26: the serialization of tool-call arguments is idempotent and independent
\* of key order: serializing a serialized value returns the same string, and
\* two mappings with equal keys and values in different key orders serialize
\* to the same string.
C26_SanitizeCanonical ==
    ExRan
        => /\ SanOut.t = "text"
           /\ SanitizeArguments(SanOut) = SanOut
           /\ SanGiven.t = "dict"
                 => \A other \in ArgumentDicts :
                       SameValue(SanGiven, other) => SanitizeArguments(other) = SanOut

C26_Witness ==
    /\ ExRan
    /\ SanGiven = Dict(<<Item("b", Dict(<<Item("b", IntValue(2)), Item("a", IntValue(1))>>)),
                         Item("a", StrValue("x"))>>)
    /\ SanOut = Text(<<"{", "\"", "a", "\"", ": ", "\"", "x", "\"", ", ",
                       "\"", "b", "\"", ": ", "{", "\"", "a", "\"", ": ", "1", ", ",
                       "\"", "b", "\"", ": ", "2", "}", "}">>)

\* the scenario of the registry a call was made for
RegistryScenario(name) == BuildScenarios[RegistryIndex(name)]

\* the default model of a backend
DefaultModel(backend) == IF backend = "local" THEN args.local_model ELSE args.openai_model

\* the keyword arguments are the registry's request with the stream flag as it
\* is there and the backend's default model added
SendsRegistryRequest(call) ==
    LET request == RegistryScenario(call.scenario).request
        body == DOMAIN request \ {"stream"}
    IN  /\ DOMAIN call.kwargs
              = body \cup {"model"} \cup (IF "stream" \in DOMAIN request THEN {"stream"} ELSE {})
        /\ \A key \in body : call.kwargs[key] = request[key]
        /\ call.kwargs.model = DefaultModel(call.backend)
        /\ "stream" \in DOMAIN request => call.kwargs.stream = request.stream

\* C27: run_single_request leaves the scenario unchanged: after any number of
\* calls scenario.request holds its original keys and values (the stream flag
\* is still there, no model key was added), so the reference backend gets the
\* same request body and streaming mode as the local one, with its own
\* default model.
C27_ScenarioUnchanged ==
    /\ pc # "start" => scenarios = SelectScenarios(args.only, args.exclude)
    /\ \A i \in DOMAIN scenarios : scenarios[i] = RegistryScenario(scenarios[i].name)
    /\ \A j \in DOMAIN calls : SendsRegistryRequest(calls[j])

C27_Witness ==
    /\ pc = "report"
    /\ scenarios[idx].name = "streaming"
    /\ scenarios[idx].request = [messages |-> "ocean", stream |-> TRUE]
    /\ Len(calls) >= 2
    /\ calls[Len(calls) - 1].backend = "local"
    /\ calls[Len(calls) - 1].kwargs = [messages |-> "ocean", stream |-> TRUE, model |-> LocalModel]
    /\ calls[Len(calls)].backend = "openai"
    /\ calls[Len(calls)].kwargs = [messages |-> "ocean", stream |-> TRUE, model |-> OpenaiModel]

\* the aggregate outputs of a finished run agree with the accumulated flag
AggregatesAgree ==
    RunFinished
        => /\ success <=> (output.passed = output.total)
           /\ output.total = Some(Len(reports))
           /\ args.json_report => output.json_success = Some(success)
           /\ ~args.json_report => output.json_success = None
           /\ (exit_code = Some(0)) <=> success

\* a step that changes the report list appends the current scenario's report
ReportsGrowByOne ==
    reports' # reports
        => /\ Len(reports') = Len(reports) + 1
           /\ SubSeq(reports', 1, Len(reports)) = reports
           /\ reports'[Len(reports')].scenario = scenarios[idx]
           /\ Len(reports') = idx

\* C28: at the end of a run the aggregate outputs agree: the accumulated
\* success flag is true exactly when the printed pass count equals the number
\* of reports, the JSON report's success is that flag, and the exit status is
\* zero exactly when it is true; the report list only grows, by one entry per
\* scenario.
C28_AggregatesAgree == []AggregatesAgree /\ [][ReportsGrowByOne]_vars

C28_Witness ==
    /\ RunFinished
    /\ args.json_report
    /\ Len(reports) = 2
    /\ ~success
    /\ output.passed = Some(1)
    /\ output.total = Some(2)
    /\ output.json_success = Some(FALSE)
    /\ exit_code = Some(1)

\* the length of the content the backend returned in a non-streamed response
EvRealLength ==
    LET content == ExClient.response.choices[1].message.content
    IN  IF content = None THEN 0 ELSE Len(Val(content))

\* the smaller of the real length and the 120 characters of the preview
EvCappedLength == IF EvRealLength < 120 THEN EvRealLength ELSE 120

\* C29: the summary of a non-streamed response has no content_length, so the
\* min_content_length check compares the length of the 120-character preview,
\* the minimum of the real content length and 120, and a bound above 120 is
\* never satisfied by a non-streamed response however long its content.
C29_SyncLengthCappedByPreview ==
    (EvEvaluated /\ EvDeclared /\ EvReachesChecks /\ ~ExStreaming)
        => /\ "content_length" \notin DOMAIN EvSummary
           /\ EvExpectations.min_content_length # None
                 => LET bound == Val(EvExpectations.min_content_length) IN
                    /\ EvTooShort <=> (EvCappedLength < bound)
                    /\ EvTooShort
                          => Mentions(Val(EvFeedback),
                                      <<", got ">> \o ToStr(EvCappedLength) \o <<")">>)
                    /\ bound > 120 => ~EvPassed

C29_Witness ==
    /\ EvEvaluated
    /\ EvDeclared
    /\ EvReachesChecks
    /\ ~ExStreaming
    /\ EvRealLength = 130
    /\ EvExpectations = ScenarioExpectations(None, None, None, Some(121))
    /\ ~EvPassed
    /\ Mentions(Val(EvFeedback), <<", got ", "1", "2", "0", ")">>)

(***************************************************************************)
(* Properties of the agent tool-execution loops (checked under SpecAgent)  *)
(***************************************************************************)
AgScript == Val(ag_script)

\* the tool calls of the k-th response
ReceivedCalls(k) == ResponseToolCalls(ag_received[k])

\* history extends before by the assistant tool-call message of tool_calls
\* and then one tool message per call, in call order, with that call's id
ToolTurnAppended(before, tool_calls, history) ==
    /\ Len(history) = Len(before) + 1 + Len(tool_calls)
    /\ SubSeq(history, 1, Len(before)) = before
    /\ history[Len(before) + 1].role = "assistant"
    /\ history[Len(before) + 1].tool_calls = tool_calls
    /\ \A i \in 1..Len(tool_calls) :
          /\ history[Len(before) + 1 + i].role = "tool"
          /\ history[Len(before) + 1 + i].tool_call_id = tool_calls[i].id

\* the interactive agent went back to its prompt and the history ends with
\* the user's next turn: a new tool loop starts
NextUserTurn(history) ==
    /\ AgScript = "interactive"
    /\ history[Len(history)].role = "user"

\* C30: whenever a response holds tool calls, the loop body ends with the
\* history of the request extended by the assistant tool-call message and
\* exactly one tool message per call, in call order and with that call's
\* id, and with the loop about to send the next request, for every script
\* and whatever the tool and its arguments; every request that followed
\* such a response was sent with that history; the loop breaks only after a
\* response without tool calls, and a request follows such a response only
\* in the interactive agent, as the first of a new loop after the user's
\* next turn.
C30_ToolLoopHistory ==
    /\ \A k \in 1..(Len(ag_sent) - 1) :
          IF ReceivedCalls(k) # <<>>
          THEN ToolTurnAppended(ag_sent[k], ReceivedCalls(k), ag_sent[k + 1])
          ELSE NextUserTurn(ag_sent[k + 1])
    /\ (Len(ag_received) > 0 /\ ag_pc # "respond" /\ ReceivedCalls(Len(ag_received)) # <<>>)
          => /\ ag_pc = "request"
             /\ ToolTurnAppended(ag_sent[Len(ag_sent)], ReceivedCalls(Len(ag_received)),
                                 ag_messages)
    /\ (ag_pc = "request" /\ Len(ag_received) > 0 /\ ReceivedCalls(Len(ag_received)) = <<>>)
          => NextUserTurn(ag_messages)
    /\ ag_pc = "done" => ReceivedCalls(Len(ag_received)) = <<>>
    /\ (ag_pc = "done" /\ AgScript # "interactive") => ag_messages = ag_sent[Len(ag_sent)]

====
